---- MODULE Spec2Model ----
(***************************************************************************)
(* A model of content-resolver: the ResourceResolver (src/src/resolver.rs) *)
(* over an ordered list of ContentSource handles (src/src/source.rs) and   *)
(* an optional Cache (src/src/cache.rs).                                   *)
(*                                                                         *)
(* Sources are opaque trait objects: `world` holds what each of them       *)
(* answers at present, and changes between calls (SourceChange), as does   *)
(* what the filesystem does to the disk cache (DiskChange).  Every         *)
(* resolver method is one action; it records what it did and returned in   *)
(* `last`, which stands until the world moves on or the next call returns. *)
(***************************************************************************)
EXTENDS Integers, Sequences, FiniteSets, TLC

\* Largest number of sources a resolver is built with.
NumSources == 2
\* Largest number of entries one source lists for a directory.
MaxEntries == 2
CacheSpecSources == 1
\* Number of fetch_file calls in progress together.
NumTasks == 2
\* Number of tasks under SpecCalls, each making one of the four calls.
CallTasks == 1
\* Longest base_path of a GitHubSource and longest path given to its
\* join_path and strip_base_path, in characters.
MaxBaseLen == 2
MaxPathLen == 3

VARIABLES
    sources,    \* ResourceResolver.sources: the length of the Vec (fixed)
    cacheKind,  \* ResourceResolver.cache: "none", or the Cache implementation
    store,      \* the cache's contents: MemoryCache.store, DiskCache's files
    world,      \* what each source, in the Vec's order, answers at present
    fsys,       \* what the filesystem does to DiskCache's reads and writes
    root,       \* whether DiskCache.root_dir exists
    calls,      \* the calls in progress together, one per task
    lock,       \* the tasks that hold MemoryCache's RwLock, by mode
    last        \* the call that has just returned: what it did, its result

vars == <<sources, cacheKind, store, world, fsys, root, calls, lock, last>>

(***************************************************************************)
(* Values                                                                  *)
(***************************************************************************)
\* Option::None, for Option<Bytes> and Option<String>.
None == "<none>"

\* Logical file paths and directory paths callers ask for.
Paths == {"a.txt", "b.txt"}
DirPaths == {"d"}
\* Byte payloads.
Contents == {"A", "Z"}

\* Result<T>.
Ok(v) == [ok |-> TRUE, val |-> v]
Err(e) == [ok |-> FALSE, err |-> e]

\* ContentError: the variant and its payload (path or message).
NotFound(path) == [kind |-> "NotFound", info |-> path]
RateLimited(message) == [kind |-> "RateLimited", info |-> message]
Network(message) == [kind |-> "Network", info |-> message]
Io(message) == [kind |-> "Io", info |-> message]
CacheError(message) == [kind |-> "Cache", info |-> message]
\* Option<ContentError>::None, the initial last_error.
NoError == [kind |-> "<none>", info |-> ""]

FileContent(content, source_path, etag) ==
    [content |-> content, source_path |-> source_path, etag |-> etag]

EntryTypes == {"File", "Dir"}
DirectoryEntry(name, path, entry_type) ==
    [name |-> name, path |-> path, entry_type |-> entry_type]
DirectoryListing(path, entries) == [path |-> path, entries |-> entries]

(***************************************************************************)
(* ContentSource: what one source answers, by its present condition        *)
(***************************************************************************)
\* A source's condition: kind says whether it has the path asked for
\* ("ok"), lacks it and says so with the path asked for ("missing") or with
\* another path ("missing_other"), or fails otherwise; content and etag are
\* the file it has, entries the directory listing it has.
Condition(kind, content, etag, entries) ==
    [kind |-> kind, content |-> content, etag |-> etag, entries |-> entries]

Failing(kind) == Condition(kind, None, None, <<>>)
FailureKinds == {"missing", "missing_other", "rate_limited", "network"}

\* The error of a failing source.
SourceError(c, path) ==
    CASE c.kind = "missing" -> NotFound(path)
      [] c.kind = "missing_other" -> NotFound("")
      [] c.kind = "rate_limited" -> RateLimited("quota")
      [] c.kind = "network" -> Network("timeout")

\* ContentSource::fetch_file(path) of a source in condition c: a file as a
\* test double gives it (no etag, the path asked for as its source_path)
\* or as GitHubSource gives it (an etag, a URL).
SourceFetchFile(c, path) ==
    IF c.kind = "ok"
    THEN Ok(FileContent(c.content,
                        IF c.etag = None THEN path ELSE "raw/" \o path,
                        c.etag))
    ELSE Err(SourceError(c, path))

\* ContentSource::list_directory(path) of a source in condition c.
SourceListDirectory(c, path) ==
    IF c.kind = "ok"
    THEN Ok(DirectoryListing(path, c.entries))
    ELSE Err(SourceError(c, path))

\* The entries sources list: two paths, each as a file or as a directory.
EntryPaths == {"d/x", "d/y"}
EntryName(path) == IF path = "d/x" THEN "x" ELSE "y"
Entries ==
    {DirectoryEntry(EntryName(p), p, t) : p \in EntryPaths, t \in EntryTypes}

\* The conditions of a source under Spec: two files, each with a listing.
CoreConditions ==
    {Condition("ok", "A", None,
               <<DirectoryEntry("x", "d/x", "File")>>),
     Condition("ok", "Z", "etag-1",
               <<DirectoryEntry("y", "d/y", "Dir"),
                 DirectoryEntry("x", "d/x", "Dir")>>)}
    \cup {Failing(k) : k \in FailureKinds}

(***************************************************************************)
(* Cache implementations                                                   *)
(***************************************************************************)
CacheKinds == {"memory", "disk", "nocache"}

\* An empty HashMap / an empty cache directory.
EmptyStore == [k \in {} |-> None]
Lookup(st, k) == IF k \in DOMAIN st THEN st[k] ELSE None
Insert(st, k, v) == [q \in DOMAIN st \cup {k} |-> IF q = k THEN v ELSE st[q]]
Delete(st, k) == [q \in DOMAIN st \ {k} |-> st[q]]

\* What the filesystem does to DiskCache's calls at present.
\*   "ok"          every filesystem call succeeds
\*   "read_fail"   fs::read fails, not for a missing file
\*   "mkdir_fail"  fs::create_dir_all fails
\*   "write_fail"  fs::write and fs::remove_file fail, the files untouched
\*   "write_torn"  fs::write creates (truncates) the file, then fails
IoOutcomes == {"ok", "read_fail", "mkdir_fail", "write_fail", "write_torn"}

\* DiskCache::key_to_path: the file of a key, named by the key's SHA-256
\* (digests of different keys are taken to differ).
key_to_path(key) == "sha256(" \o key \o ")"

\* What fs::write leaves in a file it truncated but failed to fill.
Truncated == ""

\* Cache::get
MemoryCacheGet(st, key) == Ok(Lookup(st, key))
DiskCacheGet(st, key, io) ==
    IF io = "read_fail"
    THEN Err(CacheError("Failed to read from disk cache"))
    ELSE Ok(Lookup(st, key_to_path(key)))
\* Mutant: NoCache::get returns bytes.
NoCacheGet_Hits(st, key) == Ok("A")

NoCacheGet(st, key) == Ok(None)

CacheGet(kind, st, key, io) ==
    CASE kind = "memory" -> MemoryCacheGet(st, key)
      [] kind = "disk" -> DiskCacheGet(st, key, io)
      [] kind = "nocache" -> NoCacheGet(st, key)

\* Cache::set: the result and the contents afterwards
MemoryCacheSet(st, key, value) ==
    [res |-> Ok("()"), store |-> Insert(st, key, value)]
DiskCacheSet(st, key, value, io) ==
    CASE io = "mkdir_fail" ->
           [res |-> Err(Io("create_dir_all")), store |-> st]
      [] io = "write_fail" ->
           [res |-> Err(CacheError("Failed to write to disk cache")),
            store |-> st]
      [] io = "write_torn" ->
           [res |-> Err(CacheError("Failed to write to disk cache")),
            store |-> Insert(st, key_to_path(key), Truncated)]
      [] OTHER ->
           [res |-> Ok("()"), store |-> Insert(st, key_to_path(key), value)]
NoCacheSet(st, key, value) == [res |-> Ok("()"), store |-> st]

CacheSet(kind, st, key, value, io) ==
    CASE kind = "memory" -> MemoryCacheSet(st, key, value)
      [] kind = "disk" -> DiskCacheSet(st, key, value, io)
      [] kind = "nocache" -> NoCacheSet(st, key, value)

\* Whether the root directory exists after Cache::set: DiskCache's
\* fs::create_dir_all(parent) makes it, with the directory of the file.
RootAfterSet(kind, r, io) == r \/ (kind = "disk" /\ io # "mkdir_fail")

\* Cache::remove: the result and the contents afterwards
\* Mutant: remove leaves the entry in the map.
MemoryCacheRemove_Keeps(st, key) == [res |-> Ok("()"), store |-> st]

MemoryCacheRemove(st, key) == [res |-> Ok("()"), store |-> Delete(st, key)]
\* Mutant: removing a key that has no file is an error.
DiskCacheRemove_MissingFails(st, key, io) ==
    IF key_to_path(key) \notin DOMAIN st
       \/ io \in {"write_fail", "write_torn"}
    THEN [res |-> Err(CacheError("Failed to remove from disk cache")),
          store |-> st]
    ELSE [res |-> Ok("()"), store |-> Delete(st, key_to_path(key))]

DiskCacheRemove(st, key, io) ==
    IF io \in {"write_fail", "write_torn"} /\ key_to_path(key) \in DOMAIN st
    THEN [res |-> Err(CacheError("Failed to remove from disk cache")),
          store |-> st]
    ELSE [res |-> Ok("()"), store |-> Delete(st, key_to_path(key))]
NoCacheRemove(st, key) == [res |-> Ok("()"), store |-> st]

CacheRemove(kind, st, key, io) ==
    CASE kind = "memory" -> MemoryCacheRemove(st, key)
      [] kind = "disk" -> DiskCacheRemove(st, key, io)
      [] kind = "nocache" -> NoCacheRemove(st, key)

\* Cache::contains
MemoryCacheContains(st, key) == key \in DOMAIN st
DiskCacheContains(st, key) == key_to_path(key) \in DOMAIN st
NoCacheContains(st, key) == FALSE

CacheContains(kind, st, key) ==
    CASE kind = "memory" -> MemoryCacheContains(st, key)
      [] kind = "disk" -> DiskCacheContains(st, key)
      [] kind = "nocache" -> NoCacheContains(st, key)

\* The files left of st when those named in keep are.
Remaining(st, keep) == [q \in keep |-> st[q]]

\* Cache::clear: the outcomes it can have, each the result, the contents
\* and whether the root directory exists afterwards.
MemoryCacheClear(st, r) ==
    {[res |-> Ok("()"), store |-> EmptyStore, root |-> r]}

\* Mutant: the root directory is removed and not made again.
DiskCacheClear_NoRecreate(st, r, io) ==
    {[res |-> Ok("()"), store |-> EmptyStore, root |-> FALSE]}

\* fs::remove_dir_all(root)?, then fs::create_dir_all(root)?: the first
\* fails when the root directory is missing, or is refused (nothing is
\* removed), or stops part of the way (any of the files may be left); the
\* second may fail after the first has removed everything.
DiskCacheClear(st, r, io) ==
    CASE ~r ->
           {[res |-> Err(Io("remove_dir_all")), store |-> st, root |-> r]}
      [] r /\ io = "write_fail" ->
           {[res |-> Err(Io("remove_dir_all")), store |-> st, root |-> r]}
      [] r /\ io = "write_torn" ->
           {[res |-> Err(Io("remove_dir_all")),
             store |-> Remaining(st, keep), root |-> r] :
               keep \in SUBSET DOMAIN st}
      [] r /\ io = "mkdir_fail" ->
           {[res |-> Err(Io("create_dir_all")),
             store |-> EmptyStore, root |-> FALSE]}
      [] OTHER ->
           {[res |-> Ok("()"), store |-> EmptyStore, root |-> TRUE]}
NoCacheClear(st, r) == {[res |-> Ok("()"), store |-> st, root |-> r]}

CacheClear(kind, st, r, io) ==
    CASE kind = "memory" -> MemoryCacheClear(st, r)
      [] kind = "disk" -> DiskCacheClear(st, r, io)
      [] kind = "nocache" -> NoCacheClear(st, r)

\* A new cache: MemoryCache::new, NoCache, and DiskCache::new over the root
\* directory of the DiskCache before it.
MemoryCacheNew(st, r) == [res |-> Ok("()"), store |-> EmptyStore, root |-> r]

\* Mutant: a new DiskCache empties its root directory.
DiskCacheNew_Wipes(st, r, io) ==
    IF io = "mkdir_fail"
    THEN [res |-> Err(Io("create_dir_all")), store |-> st, root |-> r]
    ELSE [res |-> Ok("()"), store |-> EmptyStore, root |-> TRUE]

\* fs::create_dir_all(&root_dir)?; Ok(Self { root_dir })
DiskCacheNew(st, r, io) ==
    IF io = "mkdir_fail"
    THEN [res |-> Err(Io("create_dir_all")), store |-> st, root |-> r]
    ELSE [res |-> Ok("()"), store |-> st, root |-> TRUE]
NoCacheNew(st, r) == [res |-> Ok("()"), store |-> st, root |-> r]

CacheNew(kind, st, r, io) ==
    CASE kind = "memory" -> MemoryCacheNew(st, r)
      [] kind = "disk" -> DiskCacheNew(st, r, io)
      [] kind = "nocache" -> NoCacheNew(st, r)

(***************************************************************************)
(* ResourceResolver::fetch_file                                            *)
(***************************************************************************)
\* The cache key of a path.
FileCacheKey(path) == "file:" \o path

\* Mutant: a cache hit is given the provenance of a source's answer.
CachedFileContent_FromSource(path, cached) == FileContent(cached, path, None)

\* The FileContent returned on a cache hit.
CachedFileContent(path, cached) ==
    FileContent(cached, "cache:" \o path, None)

\* Mutant: every error is remembered, NotFound too.
Remember_NotFoundToo(last_error, error) == error

\* Mutant: the first error other than NotFound is kept.
Remember_First(last_error, error) ==
    IF error.kind = "NotFound" \/ last_error.kind # "<none>"
    THEN last_error
    ELSE error

\* What the loop over the sources does with a source's error: NotFound
\* leaves last_error as it was, any other error replaces it.
Remember(last_error, error) ==
    IF error.kind = "NotFound" THEN last_error ELSE error

\* Mutant: a loop that ends without a success reports NotFound, whatever the
\* sources' errors were.
Exhausted_AlwaysNotFound(path, last_error) == Err(NotFound(path))

\* What is returned when the loop over the sources ends without a success.
Exhausted(path, last_error) ==
    IF last_error # NoError THEN Err(last_error) ELSE Err(NotFound(path))

\* Mutant: a source's NotFound ends the loop.
RECURSIVE FetchLoop_NotFoundAborts(_, _, _, _, _)
FetchLoop_NotFoundAborts(path, srcs, i, last_error, consulted) ==
    IF i > Len(srcs)
    THEN [res |-> Exhausted(path, last_error),
          consulted |-> consulted, from |-> 0]
    ELSE LET r == SourceFetchFile(srcs[i], path)
             seen == Append(consulted, i)
         IN  IF r.ok
             THEN [res |-> r, consulted |-> seen, from |-> i]
             ELSE IF r.err.kind = "NotFound"
                  THEN [res |-> r, consulted |-> seen, from |-> 0]
                  ELSE FetchLoop_NotFoundAborts(path, srcs, i + 1,
                                                r.err, seen)

\* Mutant: an error other than NotFound ends the loop.
RECURSIVE FetchLoop_ErrorAborts(_, _, _, _, _)
FetchLoop_ErrorAborts(path, srcs, i, last_error, consulted) ==
    IF i > Len(srcs)
    THEN [res |-> Exhausted(path, last_error),
          consulted |-> consulted, from |-> 0]
    ELSE LET r == SourceFetchFile(srcs[i], path)
             seen == Append(consulted, i)
         IN  IF r.ok
             THEN [res |-> r, consulted |-> seen, from |-> i]
             ELSE IF r.err.kind = "NotFound"
                  THEN FetchLoop_ErrorAborts(path, srcs, i + 1,
                                             last_error, seen)
                  ELSE [res |-> r, consulted |-> seen, from |-> 0]

\* Mutant: after a success the remaining sources are consulted as well, and
\* the first success is returned.
RECURSIVE FetchLoop_AsksAll(_, _, _, _, _)
FetchLoop_AsksAll(path, srcs, i, last_error, consulted) ==
    IF i > Len(srcs)
    THEN [res |-> Exhausted(path, last_error),
          consulted |-> consulted, from |-> 0]
    ELSE LET r == SourceFetchFile(srcs[i], path)
             seen == Append(consulted, i)
         IN  IF r.ok
             THEN [res |-> r,
                   consulted |-> seen \o [k \in 1..(Len(srcs) - i) |-> i + k],
                   from |-> i]
             ELSE FetchLoop_AsksAll(path, srcs, i + 1,
                                    Remember(last_error, r.err), seen)

\* The loop over the sources, from source i on: the sources consulted, the
\* source that answered (0: none) and the result.
RECURSIVE FetchLoop(_, _, _, _, _)
FetchLoop(path, srcs, i, last_error, consulted) ==
    IF i > Len(srcs)
    THEN [res |-> Exhausted(path, last_error),
          consulted |-> consulted, from |-> 0]
    ELSE LET r == SourceFetchFile(srcs[i], path)
             seen == Append(consulted, i)
         IN  IF r.ok
             THEN [res |-> r, consulted |-> seen, from |-> i]
             ELSE FetchLoop(path, srcs, i + 1,
                            Remember(last_error, r.err), seen)

\* Mutant: the fetched file is not written, and the write reported done.
CacheFetched_Dropped(kind, st, path, content, io) ==
    [res |-> Ok("()"), store |-> st]

\* Mutant: the key is made of the answering source's source_path.
CacheFetched_PerSource(kind, st, path, content, io) ==
    CacheSet(kind, st, "file:" \o content.source_path, content.content, io)

\* cache.set(&cache_key, content.content.clone()) of a fetched file: its
\* result and the contents afterwards.
CacheFetched(kind, st, path, content, io) ==
    CacheSet(kind, st, FileCacheKey(path), content.content, io)

\* Mutant: a failed cache write is returned to the caller.
ReturnFetched_Surfaced(w, content) == IF w.ok THEN Ok(content) ELSE w

\* What fetch_file returns for a fetched file once the cache write has
\* returned w: `let _ = cache.set(..)` drops w, `return Ok(content)`.
ReturnFetched(w, content) == Ok(content)

\* Mutant: a cache that cannot be read counts as a miss, and the sources
\* are asked.
fetch_file_FaultIsMiss(kind, st, path, srcs, io) ==
    LET got == IF kind = "none" THEN Ok(None)
               ELSE CacheGet(kind, st, FileCacheKey(path), io)
        cached == IF got.ok THEN got ELSE Ok(None)
    IN  IF cached.val # None
        THEN [lookup |-> "hit", consulted |-> <<>>, from |-> 0,
              write |-> "none", store |-> st,
              res |-> Ok(CachedFileContent(path, cached.val))]
        ELSE LET loop == FetchLoop(path, srcs, 1, NoError, <<>>)
                 lookup == IF kind = "none" THEN "none" ELSE "miss"
             IN  IF loop.from # 0 /\ kind # "none"
                 THEN LET w == CacheFetched(kind, st, path, loop.res.val, io)
                      IN  [lookup |-> lookup, consulted |-> loop.consulted,
                           from |-> loop.from,
                           write |-> IF w.res.ok THEN "ok" ELSE "failed",
                           store |-> w.store,
                           res |-> ReturnFetched(w.res, loop.res.val)]
                 ELSE [lookup |-> lookup, consulted |-> loop.consulted,
                       from |-> loop.from, write |-> "none", store |-> st,
                       res |-> loop.res]

\* fetch_file as a function of the resolver's cache, its contents, the
\* sources and the filesystem: the lookup's outcome, the sources consulted,
\* the source that answered, the cache write's outcome, the contents
\* afterwards and the result.
fetch_file(kind, st, path, srcs, io) ==
    LET cached == IF kind = "none" THEN Ok(None)
                  ELSE CacheGet(kind, st, FileCacheKey(path), io)
    IN  IF ~cached.ok
        THEN [lookup |-> "fault", consulted |-> <<>>, from |-> 0,
              write |-> "none", store |-> st, res |-> Err(cached.err)]
        ELSE IF cached.val # None
        THEN [lookup |-> "hit", consulted |-> <<>>, from |-> 0,
              write |-> "none", store |-> st,
              res |-> Ok(CachedFileContent(path, cached.val))]
        ELSE LET loop == FetchLoop(path, srcs, 1, NoError, <<>>)
                 lookup == IF kind = "none" THEN "none" ELSE "miss"
             IN  IF loop.from # 0 /\ kind # "none"
                 THEN LET w == CacheFetched(kind, st, path, loop.res.val, io)
                      IN  [lookup |-> lookup, consulted |-> loop.consulted,
                           from |-> loop.from,
                           write |-> IF w.res.ok THEN "ok" ELSE "failed",
                           store |-> w.store,
                           res |-> ReturnFetched(w.res, loop.res.val)]
                 ELSE [lookup |-> lookup, consulted |-> loop.consulted,
                       from |-> loop.from, write |-> "none", store |-> st,
                       res |-> loop.res]

\* Mutant: a path that no source has is remembered in the cache as an empty
\* file (negative caching).
FetchFile_NegativeCaching(path) ==
    LET r == fetch_file(cacheKind, store, path, world, fsys)
        absent == r.lookup = "miss" /\ r.from = 0 /\ cacheKind # "nocache"
    IN  /\ store' = IF absent
                    THEN CacheSet(cacheKind, store, FileCacheKey(path),
                                  Truncated, "ok").store
                    ELSE r.store
        /\ last' = [op |-> "fetch_file", path |-> path,
                    lookup |-> r.lookup, consulted |-> r.consulted,
                    from |-> r.from, write |-> r.write, res |-> r.res]
        /\ root' = IF r.write = "none" THEN root
                               ELSE RootAfterSet(cacheKind, root, fsys)
        /\ UNCHANGED <<sources, cacheKind, world, fsys, calls, lock>>

FetchFile(path) ==
    LET r == fetch_file(cacheKind, store, path, world, fsys)
    IN  /\ store' = r.store
        /\ last' = [op |-> "fetch_file", path |-> path,
                    lookup |-> r.lookup, consulted |-> r.consulted,
                    from |-> r.from, write |-> r.write, res |-> r.res]
        /\ root' = IF r.write = "none" THEN root
                               ELSE RootAfterSet(cacheKind, root, fsys)
        /\ UNCHANGED <<sources, cacheKind, world, fsys, calls, lock>>

(***************************************************************************)
(* ResourceResolver::list_directory                                        *)
(***************************************************************************)
\* Mutant: the loop goes on after a success, and the last success wins.
RECURSIVE ListLoop_LastWins(_, _, _, _, _)
ListLoop_LastWins(path, srcs, i, last_error, consulted) ==
    IF i > Len(srcs)
    THEN [res |-> Exhausted(path, last_error),
          consulted |-> consulted, from |-> 0]
    ELSE LET r == SourceListDirectory(srcs[i], path)
             seen == Append(consulted, i)
             later == ListLoop_LastWins(path, srcs, i + 1,
                                        IF r.ok THEN last_error
                                        ELSE Remember(last_error, r.err),
                                        seen)
         IN  IF r.ok /\ later.from = 0
             THEN [res |-> r, consulted |-> later.consulted, from |-> i]
             ELSE later

\* The loop over the sources, as fetch_file's.
RECURSIVE ListLoop(_, _, _, _, _)
ListLoop(path, srcs, i, last_error, consulted) ==
    IF i > Len(srcs)
    THEN [res |-> Exhausted(path, last_error),
          consulted |-> consulted, from |-> 0]
    ELSE LET r == SourceListDirectory(srcs[i], path)
             seen == Append(consulted, i)
         IN  IF r.ok
             THEN [res |-> r, consulted |-> seen, from |-> i]
             ELSE ListLoop(path, srcs, i + 1,
                           Remember(last_error, r.err), seen)

list_directory(path, srcs) == ListLoop(path, srcs, 1, NoError, <<>>)

\* Mutant: list_directory looks its path up in the cache first, as
\* fetch_file does, and fails when the cache cannot be read.
ListDirectory_ReadsCache(path) ==
    LET cached == IF cacheKind = "none" THEN Ok(None)
                  ELSE CacheGet(cacheKind, store, "dir:" \o path, fsys)
        r == list_directory(path, world)
    IN  /\ last' = [op |-> "list_directory", path |-> path,
                    consulted |-> IF cached.ok THEN r.consulted ELSE <<>>,
                    from |-> IF cached.ok THEN r.from ELSE 0,
                    res |-> IF cached.ok THEN r.res ELSE Err(cached.err)]
        /\ UNCHANGED <<sources, cacheKind, store, world, fsys, root,
                       calls, lock>>

ListDirectory(path) ==
    LET r == list_directory(path, world)
    IN  /\ last' = [op |-> "list_directory", path |-> path,
                    consulted |-> r.consulted, from |-> r.from,
                    res |-> r.res]
        /\ UNCHANGED <<sources, cacheKind, store, world, fsys, root,
                       calls, lock>>

(***************************************************************************)
(* ResourceResolver::list_directory_merged                                 *)
(***************************************************************************)
\* str::cmp on entry paths: the paths in ascending order.
PathOrder == <<"d/x", "d/y">>
PathRank(path) == CHOOSE i \in 1..Len(PathOrder) : PathOrder[i] = path
PathLess(a, b) == PathRank(a) < PathRank(b)

\* Mutant: a source that fails otherwise than with NotFound ends the loop,
\* and the merge fails.
RECURSIVE MergeLoop_ErrorFails(_, _, _, _, _, _)
MergeLoop_ErrorFails(path, srcs, i, all_entries, found_any, consulted) ==
    IF i > Len(srcs)
    THEN [all_entries |-> all_entries, found_any |-> found_any,
          consulted |-> consulted]
    ELSE LET r == SourceListDirectory(srcs[i], path)
             seen == Append(consulted, i)
         IN  IF r.ok
             THEN MergeLoop_ErrorFails(path, srcs, i + 1,
                                       all_entries \o r.val.entries,
                                       TRUE, seen)
             ELSE IF r.err.kind = "NotFound"
                  THEN MergeLoop_ErrorFails(path, srcs, i + 1, all_entries,
                                            found_any, seen)
                  ELSE [all_entries |-> <<>>, found_any |-> FALSE,
                        consulted |-> seen]

\* Mutant: the loop ends at the first source that succeeds.
RECURSIVE MergeLoop_ShortCircuit(_, _, _, _, _, _)
MergeLoop_ShortCircuit(path, srcs, i, all_entries, found_any, consulted) ==
    IF i > Len(srcs) \/ found_any
    THEN [all_entries |-> all_entries, found_any |-> found_any,
          consulted |-> consulted]
    ELSE LET r == SourceListDirectory(srcs[i], path)
             seen == Append(consulted, i)
         IN  IF r.ok
             THEN MergeLoop_ShortCircuit(path, srcs, i + 1,
                      all_entries \o r.val.entries, TRUE, seen)
             ELSE MergeLoop_ShortCircuit(path, srcs, i + 1,
                      all_entries, found_any, seen)

\* The loop over the sources, from source i on: the entries of the sources
\* that succeeded, in the order of the sources, whether any succeeded, and
\* the sources consulted.
RECURSIVE MergeLoop(_, _, _, _, _, _)
MergeLoop(path, srcs, i, all_entries, found_any, consulted) ==
    IF i > Len(srcs)
    THEN [all_entries |-> all_entries, found_any |-> found_any,
          consulted |-> consulted]
    ELSE LET r == SourceListDirectory(srcs[i], path)
             seen == Append(consulted, i)
         IN  IF r.ok
             THEN MergeLoop(path, srcs, i + 1,
                            all_entries \o r.val.entries, TRUE, seen)
             ELSE MergeLoop(path, srcs, i + 1, all_entries, found_any, seen)

\* Mutant: an entry is put before the entries of the same path.
RECURSIVE InsertByPath_Unstable(_, _)
InsertByPath_Unstable(sorted, e) ==
    IF sorted = <<>>
    THEN <<e>>
    ELSE IF ~PathLess(Head(sorted).path, e.path)
         THEN <<e>> \o sorted
         ELSE <<Head(sorted)>> \o InsertByPath_Unstable(Tail(sorted), e)

\* An entry put into a sorted sequence, behind the entries that do not
\* compare greater.
RECURSIVE InsertByPath(_, _)
InsertByPath(sorted, e) ==
    IF sorted = <<>>
    THEN <<e>>
    ELSE IF PathLess(e.path, Head(sorted).path)
         THEN <<e>> \o sorted
         ELSE <<Head(sorted)>> \o InsertByPath(Tail(sorted), e)

\* Mutant: the entries are left in the order of the sources.
sort_by_path_Unsorted(entries) == entries

\* all_entries.sort_by(|a, b| a.path.cmp(&b.path)): a stable sort.
RECURSIVE sort_by_path(_)
sort_by_path(entries) ==
    IF entries = <<>>
    THEN <<>>
    ELSE InsertByPath(sort_by_path(SubSeq(entries, 1, Len(entries) - 1)),
                      entries[Len(entries)])

\* all_entries.dedup_by(|a, b| a.path == b.path): of each run of entries
\* with one path, the first is kept.
RECURSIVE dedup_by_path(_)
dedup_by_path(entries) ==
    IF Len(entries) <= 1
    THEN entries
    ELSE LET rest == dedup_by_path(Tail(entries))
         IN  IF Head(entries).path = Head(rest).path
             THEN <<Head(entries)>> \o Tail(rest)
             ELSE <<Head(entries)>> \o rest

\* Mutant: when no source succeeded the call fails as list_directory does,
\* with the last error that is not NotFound.
list_directory_merged_LastError(path, srcs) ==
    LET loop == MergeLoop(path, srcs, 1, <<>>, FALSE, <<>>)
    IN  [consulted |-> loop.consulted,
         res |-> IF ~loop.found_any
                 THEN list_directory(path, srcs).res
                 ELSE Ok(DirectoryListing(path,
                         dedup_by_path(sort_by_path(loop.all_entries))))]

list_directory_merged(path, srcs) ==
    LET loop == MergeLoop(path, srcs, 1, <<>>, FALSE, <<>>)
    IN  [consulted |-> loop.consulted,
         res |-> IF ~loop.found_any
                 THEN Err(NotFound(path))
                 ELSE Ok(DirectoryListing(path,
                         dedup_by_path(sort_by_path(loop.all_entries))))]

ListDirectoryMerged(path) ==
    LET r == list_directory_merged(path, world)
    IN  /\ last' = [op |-> "list_directory_merged", path |-> path,
                    consulted |-> r.consulted, res |-> r.res]
        /\ UNCHANGED <<sources, cacheKind, store, world, fsys, root,
                       calls, lock>>

(***************************************************************************)
(* ResourceResolver::file_exists                                           *)
(***************************************************************************)
\* Mutant: a source overrides file_exists with a probe that reports every
\* path it does not know to be missing.
SourceFileExists_UnlessMissing(c, path) ==
    LET r == SourceFetchFile(c, path)
    IN  r.ok \/ r.err.kind # "NotFound"

\* ContentSource::file_exists, which no source of the crate overrides:
\* self.fetch_file(path).await.is_ok()
SourceFileExists(c, path) == SourceFetchFile(c, path).ok

\* Mutant: a source that fails otherwise than with NotFound ends the loop.
RECURSIVE ExistsLoop_ErrorAborts(_, _, _, _)
ExistsLoop_ErrorAborts(path, srcs, i, consulted) ==
    IF i > Len(srcs)
    THEN [exists |-> FALSE, consulted |-> consulted]
    ELSE IF SourceFileExists(srcs[i], path)
         THEN [exists |-> TRUE, consulted |-> Append(consulted, i)]
         ELSE IF SourceFetchFile(srcs[i], path).err.kind # "NotFound"
              THEN [exists |-> FALSE, consulted |-> Append(consulted, i)]
              ELSE ExistsLoop_ErrorAborts(path, srcs, i + 1,
                                          Append(consulted, i))

\* The loop over the sources, from source i on: whether one reported the
\* file, and the sources consulted.
RECURSIVE ExistsLoop(_, _, _, _)
ExistsLoop(path, srcs, i, consulted) ==
    IF i > Len(srcs)
    THEN [exists |-> FALSE, consulted |-> consulted]
    ELSE IF SourceFileExists(srcs[i], path)
         THEN [exists |-> TRUE, consulted |-> Append(consulted, i)]
         ELSE ExistsLoop(path, srcs, i + 1, Append(consulted, i))

file_exists(path, srcs) == ExistsLoop(path, srcs, 1, <<>>)

\* Mutant: file_exists answers true for a path the cache holds, before it
\* asks the sources.
FileExists_CacheFirst(path) ==
    LET r == file_exists(path, world)
        held == /\ cacheKind # "none"
                /\ CacheContains(cacheKind, store, FileCacheKey(path))
    IN  /\ last' = [op |-> "file_exists", path |-> path,
                    consulted |-> IF held THEN <<>> ELSE r.consulted,
                    exists |-> held \/ r.exists]
        /\ UNCHANGED <<sources, cacheKind, store, world, fsys, root,
                       calls, lock>>

FileExists(path) ==
    LET r == file_exists(path, world)
    IN  /\ last' = [op |-> "file_exists", path |-> path,
                    consulted |-> r.consulted, exists |-> r.exists]
        /\ UNCHANGED <<sources, cacheKind, store, world, fsys, root,
                       calls, lock>>

(***************************************************************************)
(* The cache used directly, beside the resolver                            *)
(***************************************************************************)
CacheKeys == {FileCacheKey(p) : p \in Paths}

CacheSetCall(key, value) ==
    /\ cacheKind # "none"
    /\ LET w == CacheSet(cacheKind, store, key, value, fsys)
       IN  /\ store' = w.store
           /\ last' = [op |-> "cache_set", key |-> key, value |-> value,
                       res |-> w.res]
    /\ root' = RootAfterSet(cacheKind, root, fsys)
    /\ UNCHANGED <<sources, cacheKind, world, fsys, calls, lock>>

CacheRemoveCall(key) ==
    /\ cacheKind # "none"
    /\ LET w == CacheRemove(cacheKind, store, key, fsys)
       IN  /\ store' = w.store
           /\ last' = [op |-> "cache_remove", key |-> key, res |-> w.res]
    /\ UNCHANGED <<sources, cacheKind, world, fsys, root, calls, lock>>

CacheGetCall(key) ==
    /\ cacheKind # "none"
    /\ last' = [op |-> "cache_get", key |-> key,
                res |-> CacheGet(cacheKind, store, key, fsys)]
    /\ UNCHANGED <<sources, cacheKind, store, world, fsys, root, calls, lock>>

CacheContainsCall(key) ==
    /\ cacheKind # "none"
    /\ last' = [op |-> "cache_contains", key |-> key,
                held |-> CacheContains(cacheKind, store, key)]
    /\ UNCHANGED <<sources, cacheKind, store, world, fsys, root, calls, lock>>

CacheClearCall ==
    /\ cacheKind # "none"
    /\ \E c \in CacheClear(cacheKind, store, root, fsys) :
          /\ store' = c.store
          /\ root' = c.root
          /\ last' = [op |-> "cache_clear", res |-> c.res,
                      removed |-> DOMAIN store \ DOMAIN c.store]
    /\ UNCHANGED <<sources, cacheKind, world, fsys, calls, lock>>

\* The process starts again: a new cache of the same kind, a DiskCache over
\* the same root directory, and a new resolver over it; when the cache
\* cannot be made there is no new resolver.
Restart ==
    /\ cacheKind # "none"
    /\ LET n == CacheNew(cacheKind, store, root, fsys)
       IN  /\ store' = n.store
           /\ root' = n.root
           /\ last' = [op |-> "new", res |-> n.res]
    /\ UNCHANGED <<sources, cacheKind, world, fsys, calls, lock>>

(***************************************************************************)
(* The world between two calls                                             *)
(***************************************************************************)
\* No call has just returned.
Idle == [op |-> "idle"]

\* No fetch_file call is in progress beside the call that `last` tells of.
NoCalls == <<>>

\* RwLock::new: no task holds the lock.
NoLock == [readers |-> {}, writers |-> {}]

\* A source's content changes, or the source starts or stops failing.
SourceChange(s, c) ==
    /\ s \in 1..sources
    /\ c # world[s]
    /\ world' = [world EXCEPT ![s] = c]
    /\ last' = Idle
    /\ UNCHANGED <<sources, cacheKind, store, fsys, root, calls, lock>>

\* The filesystem under the disk cache starts or stops failing.
DiskChange(io) ==
    /\ cacheKind = "disk"
    /\ io # fsys
    /\ fsys' = io
    /\ last' = Idle
    /\ UNCHANGED <<sources, cacheKind, store, world, root, calls, lock>>

(***************************************************************************)
(* The specification                                                       *)
(***************************************************************************)
\* ResourceResolver::new and ResourceResolver::with_cache, over a new cache.
Init ==
    /\ sources \in 0..NumSources
    /\ cacheKind \in {"none"} \cup CacheKinds
    /\ store = EmptyStore
    /\ world \in [1..sources -> CoreConditions]
    /\ fsys = "ok"
    /\ root = TRUE
    /\ calls = NoCalls
    /\ lock = NoLock
    /\ last = Idle

Next ==
    \/ \E path \in Paths : FetchFile(path)
    \/ \E path \in DirPaths : ListDirectory(path)
    \/ \E path \in DirPaths : ListDirectoryMerged(path)
    \/ \E path \in Paths : FileExists(path)
    \/ \E key \in CacheKeys, value \in Contents : CacheSetCall(key, value)
    \/ \E key \in CacheKeys : CacheRemoveCall(key)
    \/ \E s \in 1..NumSources, c \in CoreConditions : SourceChange(s, c)
    \/ \E io \in IoOutcomes : DiskChange(io)

Spec == Init /\ [][Next]_vars

(***************************************************************************)
(* The specification of the directory listings: sources that list any      *)
(* sequence of up to MaxEntries entries                                    *)
(***************************************************************************)
RECURSIVE SeqsUpTo(_, _)
SeqsUpTo(S, n) ==
    IF n = 0
    THEN {<<>>}
    ELSE LET shorter == SeqsUpTo(S, n - 1)
         IN  shorter \cup {Append(q, e) : q \in shorter, e \in S}

Listings == SeqsUpTo(Entries, MaxEntries)

ListingConditions ==
    {Condition("ok", "A", None, l) : l \in Listings}
    \cup {Failing(k) : k \in FailureKinds}

InitListing ==
    /\ sources \in 0..NumSources
    /\ cacheKind \in {"none"} \cup CacheKinds
    /\ store = EmptyStore
    /\ world \in [1..sources -> ListingConditions]
    /\ fsys = "ok"
    /\ root = TRUE
    /\ calls = NoCalls
    /\ lock = NoLock
    /\ last = Idle

NextListing ==
    \/ \E path \in DirPaths : ListDirectory(path)
    \/ \E path \in DirPaths : ListDirectoryMerged(path)
    \/ \E s \in 1..NumSources, c \in ListingConditions : SourceChange(s, c)

SpecListing == InitListing /\ [][NextListing]_vars

(***************************************************************************)
(* The specification of the caches: every operation of a cache, used       *)
(* directly and through a resolver of at most CacheSpecSources sources      *)
(***************************************************************************)
InitCache ==
    /\ sources \in 0..CacheSpecSources
    /\ cacheKind \in CacheKinds
    /\ store = EmptyStore
    /\ world \in [1..sources -> CoreConditions]
    /\ fsys = "ok"
    /\ root = TRUE
    /\ calls = NoCalls
    /\ lock = NoLock
    /\ last = Idle

NextCache ==
    \/ \E key \in CacheKeys : CacheGetCall(key)
    \/ \E key \in CacheKeys, value \in Contents : CacheSetCall(key, value)
    \/ \E key \in CacheKeys : CacheContainsCall(key)
    \/ \E key \in CacheKeys : CacheRemoveCall(key)
    \/ CacheClearCall
    \/ Restart
    \/ \E path \in Paths : FetchFile(path)
    \/ \E s \in 1..CacheSpecSources, c \in CoreConditions : SourceChange(s, c)
    \/ \E io \in IoOutcomes : DiskChange(io)

SpecCache == InitCache /\ [][NextCache]_vars

(***************************************************************************)
(* The specification of fetch_file calls in progress together: tasks that  *)
(* share one resolver over static sources, each the future of one          *)
(* fetch_file call, interleaved at the call's .await points                *)
(***************************************************************************)
Tasks == 1..NumTasks

\* A task that has made no call yet.  Of a call: the operation, its
\* arguments, the loop's position and last_error, the sources it has
\* called, all_entries and found_any of a merged listing, the result,
\* whether the call has written the cache, where it was cancelled, and its
\* place among the calls that have returned.
NotCalled ==
    [pc |-> "idle", op |-> None, path |-> None, key |-> None,
     value |-> None, i |-> 0, last_error |-> NoError, consulted |-> <<>>,
     all_entries |-> <<>>, found_any |-> FALSE, res |-> Err(NoError),
     wrote |-> FALSE, at |-> None, nth |-> 0]

\* tokio::sync::RwLock over MemoryCache's map: read() is granted while no
\* task holds the lock for writing, write() while no task holds it at all;
\* a guard is given up when it is dropped.
CanRead(l) == l.writers = {}
\* Mutant: write() is granted while other tasks read.
CanWrite_AmongReaders(l) == l.writers = {}

CanWrite(l) == l.writers = {} /\ l.readers = {}
AcquireRead(l, t) == [l EXCEPT !.readers = @ \cup {t}]
AcquireWrite(l, t) == [l EXCEPT !.writers = @ \cup {t}]
\* Mutant: the guard outlives the operation that took it.
Release_Kept(l, t) == l

Release(l, t) == [readers |-> l.readers \ {t}, writers |-> l.writers \ {t}]
Holds(t) == t \in lock.readers \cup lock.writers

\* The operations that take the lock for reading and for writing.
ReadOps == {"get", "contains"}
WriteOps == {"set", "remove", "clear"}

\* Whether the task's cache operation can act on the cache: MemoryCache's
\* once the task holds the lock, the others' at once.
Ready(t) == cacheKind = "memory" => Holds(t)

\* What fs::write's write_all leaves in a file: the bytes written from the
\* file's start, over what the file held.
WriteAll(file, value) ==
    IF Len(value) >= Len(file)
    THEN value
    ELSE value \o SubSeq(file, Len(value) + 1, Len(file))

\* fs::write(&path, value) of DiskCache::set, as far as File::create: the
\* directory made, the file made or truncated, no byte written yet.
DiskCacheSetBegin(st, key) == Insert(st, key_to_path(key), Truncated)

\* fs::write(&path, value) of DiskCache::set, the bytes written to the
\* file as it is by then; to a file removed meanwhile, nothing that a
\* later read sees.
DiskCacheSetEnd(st, key, value) ==
    IF key_to_path(key) \in DOMAIN st
    THEN Insert(st, key_to_path(key), WriteAll(st[key_to_path(key)], value))
    ELSE st

\* The task's call returns res, after the calls that returned before.
Return(t, res) ==
    [calls[t] EXCEPT !.pc = "done", !.res = res,
                     !.nth = Cardinality({u \in DOMAIN calls :
                                             calls[u].pc = "done"}) + 1]

\* A task calls fetch_file(path).
Call(t, path) ==
    /\ calls[t].pc = "idle"
    /\ calls' = [calls EXCEPT ![t] = [NotCalled EXCEPT !.pc = "get",
                                                      !.op = "fetch_file",
                                                      !.path = path,
                                                      !.key =
                                                         FileCacheKey(path)]]
    /\ UNCHANGED <<sources, cacheKind, store, world, fsys, root, lock, last>>

\* A task calls an operation of the cache.
CacheCall(t, op, key, value) ==
    /\ calls[t].pc = "idle"
    /\ cacheKind # "none"
    /\ calls' = [calls EXCEPT ![t] =
                    [NotCalled EXCEPT !.pc = op, !.op = op,
                        !.key = IF op = "clear" THEN None ELSE key,
                        !.value = IF op = "set" THEN value ELSE None]]
    /\ UNCHANGED <<sources, cacheKind, store, world, fsys, root, lock, last>>

\* self.store.read().await of MemoryCache's get and contains.
LockRead(t) ==
    /\ cacheKind = "memory"
    /\ calls[t].pc \in ReadOps
    /\ ~Holds(t)
    /\ CanRead(lock)
    /\ lock' = AcquireRead(lock, t)
    /\ UNCHANGED <<sources, cacheKind, store, world, fsys, root, calls, last>>

\* self.store.write().await of MemoryCache's set, remove and clear.
LockWrite(t) ==
    /\ cacheKind = "memory"
    /\ calls[t].pc \in WriteOps
    /\ ~Holds(t)
    /\ CanWrite(lock)
    /\ lock' = AcquireWrite(lock, t)
    /\ UNCHANGED <<sources, cacheKind, store, world, fsys, root, calls, last>>

\* cache.get(&cache_key).await: of a get call, its return; of a fetch_file
\* call, with `?`, the return of a hit and the way on after a miss.
CallCacheGet(t) ==
    /\ calls[t].pc = "get"
    /\ Ready(t)
    /\ LET c == calls[t]
           cached == IF cacheKind = "none" THEN Ok(None)
                     ELSE CacheGet(cacheKind, store, c.key, fsys)
       IN  calls' = [calls EXCEPT ![t] =
                        IF c.op = "get"
                        THEN Return(t, cached)
                        ELSE IF ~cached.ok
                        THEN Return(t, Err(cached.err))
                        ELSE IF cached.val # None
                        THEN Return(t, Ok(CachedFileContent(c.path,
                                                            cached.val)))
                        ELSE [c EXCEPT !.pc = "source", !.i = 1]]
    /\ lock' = Release(lock, t)
    /\ UNCHANGED <<sources, cacheKind, store, world, fsys, root, last>>

\* Mutant: a source that fails otherwise than with NotFound is asked once
\* more before the loop moves on.
CallSource_Retries(t) ==
    /\ calls[t].pc = "source"
    /\ LET c == calls[t]
           r == SourceFetchFile(world[c.i], c.path)
           seen == Append(c.consulted, c.i)
           again == /\ r.err.kind # "NotFound"
                    /\ (c.consulted = <<>>
                           \/ c.consulted[Len(c.consulted)] # c.i)
       IN  calls' = [calls EXCEPT ![t] =
                        IF c.i > sources
                        THEN Return(t, Exhausted(c.path, c.last_error))
                        ELSE IF ~r.ok
                        THEN [c EXCEPT !.i = IF again THEN c.i ELSE c.i + 1,
                                       !.consulted = seen,
                                       !.last_error =
                                           Remember(c.last_error, r.err)]
                        ELSE IF cacheKind = "none"
                        THEN [Return(t, r) EXCEPT !.consulted = seen]
                        ELSE [c EXCEPT !.pc = "set", !.res = r,
                                       !.consulted = seen,
                                       !.value = r.val.content]]
    /\ UNCHANGED <<sources, cacheKind, store, world, fsys, root, lock, last>>

\* One turn of the call's loop over the sources,
\* source.fetch_file(path).await, or the loop's end.
CallSource(t) ==
    /\ calls[t].pc = "source"
    /\ LET c == calls[t]
           r == SourceFetchFile(world[c.i], c.path)
           seen == Append(c.consulted, c.i)
       IN  calls' = [calls EXCEPT ![t] =
                        IF c.i > sources
                        THEN Return(t, Exhausted(c.path, c.last_error))
                        ELSE IF ~r.ok
                        THEN [c EXCEPT !.i = c.i + 1,
                                       !.consulted = seen,
                                       !.last_error =
                                           Remember(c.last_error, r.err)]
                        ELSE IF cacheKind = "none"
                        THEN [Return(t, r) EXCEPT !.consulted = seen]
                        ELSE [c EXCEPT !.pc = "set", !.res = r,
                                       !.consulted = seen,
                                       !.value = r.val.content]]
    /\ UNCHANGED <<sources, cacheKind, store, world, fsys, root, lock, last>>

\* A task calls list_directory(path).
CallListDirectory(t, path) ==
    /\ calls[t].pc = "idle"
    /\ calls' = [calls EXCEPT ![t] =
                    [NotCalled EXCEPT !.pc = "list",
                                      !.op = "list_directory",
                                      !.path = path, !.i = 1]]
    /\ UNCHANGED <<sources, cacheKind, store, world, fsys, root, lock, last>>

\* One turn of list_directory's loop over the sources,
\* source.list_directory(path).await, or the loop's end.
CallListSource(t) ==
    /\ calls[t].pc = "list"
    /\ LET c == calls[t]
           r == SourceListDirectory(world[c.i], c.path)
           seen == Append(c.consulted, c.i)
       IN  calls' = [calls EXCEPT ![t] =
                        IF c.i > sources
                        THEN Return(t, Exhausted(c.path, c.last_error))
                        ELSE IF r.ok
                        THEN [Return(t, r) EXCEPT !.consulted = seen]
                        ELSE [c EXCEPT !.i = c.i + 1,
                                       !.consulted = seen,
                                       !.last_error =
                                           Remember(c.last_error, r.err)]]
    /\ UNCHANGED <<sources, cacheKind, store, world, fsys, root, lock, last>>

\* A task calls list_directory_merged(path).
CallListDirectoryMerged(t, path) ==
    /\ calls[t].pc = "idle"
    /\ calls' = [calls EXCEPT ![t] =
                    [NotCalled EXCEPT !.pc = "merge",
                                      !.op = "list_directory_merged",
                                      !.path = path, !.i = 1]]
    /\ UNCHANGED <<sources, cacheKind, store, world, fsys, root, lock, last>>

\* One turn of list_directory_merged's loop over the sources, or what
\* follows the loop: NotFound, or the entries sorted and deduplicated.
CallMergeSource(t) ==
    /\ calls[t].pc = "merge"
    /\ LET c == calls[t]
           r == SourceListDirectory(world[c.i], c.path)
           seen == Append(c.consulted, c.i)
       IN  calls' = [calls EXCEPT ![t] =
                        IF c.i > sources
                        THEN Return(t,
                                 IF ~c.found_any
                                 THEN Err(NotFound(c.path))
                                 ELSE Ok(DirectoryListing(c.path,
                                          dedup_by_path(
                                            sort_by_path(c.all_entries)))))
                        ELSE IF r.ok
                        THEN [c EXCEPT !.i = c.i + 1,
                                       !.consulted = seen,
                                       !.found_any = TRUE,
                                       !.all_entries = @ \o r.val.entries]
                        ELSE [c EXCEPT !.i = c.i + 1,
                                       !.consulted = seen]]
    /\ UNCHANGED <<sources, cacheKind, store, world, fsys, root, lock, last>>

\* A task calls file_exists(path).
CallFileExists(t, path) ==
    /\ calls[t].pc = "idle"
    /\ calls' = [calls EXCEPT ![t] =
                    [NotCalled EXCEPT !.pc = "exists",
                                      !.op = "file_exists",
                                      !.path = path, !.i = 1]]
    /\ UNCHANGED <<sources, cacheKind, store, world, fsys, root, lock, last>>

\* One turn of file_exists' loop over the sources,
\* source.file_exists(path).await, or the loop's end.
CallExistsSource(t) ==
    /\ calls[t].pc = "exists"
    /\ LET c == calls[t]
           seen == Append(c.consulted, c.i)
       IN  calls' = [calls EXCEPT ![t] =
                        IF c.i > sources
                        THEN Return(t, Ok(FALSE))
                        ELSE IF SourceFileExists(world[c.i], c.path)
                        THEN [Return(t, Ok(TRUE)) EXCEPT !.consulted = seen]
                        ELSE [c EXCEPT !.i = c.i + 1,
                                       !.consulted = seen]]
    /\ UNCHANGED <<sources, cacheKind, store, world, fsys, root, lock, last>>

\* What a call returns once its cache.set has returned w.
AfterSet(t, w) ==
    IF calls[t].op = "set"
    THEN Return(t, w)
    ELSE Return(t, ReturnFetched(w, calls[t].res.val))

\* cache.set(key, value).await, of a set call or of a fetch_file call's
\* fetched file.  MemoryCache inserts under its write lock and NoCache
\* does nothing; DiskCache starts fs::write, which other tasks' reads and
\* writes may overtake.
CallCacheSet(t) ==
    /\ calls[t].pc = "set"
    /\ Ready(t)
    /\ LET c == calls[t]
           w == CacheSet(cacheKind, store, c.key, c.value, fsys)
       IN  IF cacheKind = "disk" /\ fsys = "ok"
           THEN /\ store' = DiskCacheSetBegin(store, c.key)
                /\ calls' = [calls EXCEPT ![t].pc = "writing",
                                          ![t].wrote = TRUE]
           ELSE /\ store' = w.store
                /\ calls' = [calls EXCEPT ![t] =
                                [AfterSet(t, w.res) EXCEPT
                                    !.wrote = cacheKind # "nocache"]]
    /\ root' = RootAfterSet(cacheKind, root, fsys)
    /\ lock' = Release(lock, t)
    /\ UNCHANGED <<sources, cacheKind, world, fsys, last>>

\* DiskCache's fs::write completes, and the call returns; the write of a
\* call that was cancelled meanwhile completes as well, on the blocking
\* thread that tokio::fs gave it to.
CallCacheSetEnd(t) ==
    /\ calls[t].pc \in {"writing", "detached"}
    /\ store' = DiskCacheSetEnd(store, calls[t].key, calls[t].value)
    /\ calls' = [calls EXCEPT ![t] =
                    IF calls[t].pc = "detached"
                    THEN [calls[t] EXCEPT !.pc = "cancelled"]
                    ELSE AfterSet(t, Ok("()"))]
    /\ UNCHANGED <<sources, cacheKind, world, fsys, root, lock, last>>

\* cache.contains(key).await
CallCacheContains(t) ==
    /\ calls[t].pc = "contains"
    /\ Ready(t)
    /\ calls' = [calls EXCEPT ![t] =
                    Return(t, Ok(CacheContains(cacheKind, store,
                                               calls[t].key)))]
    /\ lock' = Release(lock, t)
    /\ UNCHANGED <<sources, cacheKind, store, world, fsys, root, last>>

\* cache.remove(key).await
CallCacheRemove(t) ==
    /\ calls[t].pc = "remove"
    /\ Ready(t)
    /\ LET w == CacheRemove(cacheKind, store, calls[t].key, fsys)
       IN  /\ store' = w.store
           /\ calls' = [calls EXCEPT ![t] =
                           [Return(t, w.res) EXCEPT !.wrote = TRUE]]
    /\ lock' = Release(lock, t)
    /\ UNCHANGED <<sources, cacheKind, world, fsys, root, last>>

\* MemoryCache's clear().await
CallCacheClear(t) ==
    /\ calls[t].pc = "clear"
    /\ cacheKind = "memory"
    /\ Ready(t)
    /\ \E c \in CacheClear(cacheKind, store, root, fsys) :
          /\ store' = c.store
          /\ calls' = [calls EXCEPT ![t] =
                          [Return(t, c.res) EXCEPT !.wrote = TRUE]]
    /\ lock' = Release(lock, t)
    /\ UNCHANGED <<sources, cacheKind, world, fsys, root, last>>

\* The .await points of a call, where its future can be dropped: the wait
\* for the cache's answer or for the lock, the wait for a source, the wait
\* for fs::write.
Suspended(t) ==
    /\ calls[t].pc \in {"get", "source", "set", "writing"}
    /\ ~Holds(t)

\* Mutant: the cancelled call runs on to its end, as a detached task does.
Cancel_Detached(t) ==
    /\ Suspended(t)
    /\ calls' = [calls EXCEPT ![t].at = calls[t].pc]
    /\ UNCHANGED <<sources, cacheKind, store, world, fsys, root, lock, last>>

\* The caller cancels the task of a fetch_file call: the call's future is
\* dropped where it waits and runs no further; an fs::write that has begun
\* is not part of the future and goes on.
Cancel(t) ==
    /\ Suspended(t)
    /\ calls' = [calls EXCEPT ![t].at = calls[t].pc,
                              ![t].pc = IF calls[t].pc = "writing"
                                        THEN "detached"
                                        ELSE "cancelled"]
    /\ UNCHANGED <<sources, cacheKind, store, world, fsys, root, lock, last>>

\* The conditions of a static source under the specifications of calls in
\* progress together: either file, a path that is missing, a failure.
StaticConditions ==
    {c \in CoreConditions : c.kind \in {"ok", "missing", "network"}}

\* A shared resolver over a new cache and static sources, no call made yet.
InitConcurrent ==
    /\ sources \in 0..NumSources
    /\ cacheKind \in {"none"} \cup CacheKinds
    /\ store = EmptyStore
    /\ world \in [1..sources -> StaticConditions]
    /\ fsys = "ok"
    /\ root = TRUE
    /\ calls = [t \in Tasks |-> NotCalled]
    /\ lock = NoLock
    /\ last = Idle

NextConcurrent ==
    \/ \E t \in Tasks, path \in Paths : Call(t, path)
    \/ \E t \in Tasks : LockRead(t)
    \/ \E t \in Tasks : LockWrite(t)
    \/ \E t \in Tasks : CallCacheGet(t)
    \/ \E t \in Tasks : CallSource(t)
    \/ \E t \in Tasks : CallCacheSet(t)
    \/ \E t \in Tasks : CallCacheSetEnd(t)
    \/ \E t \in Tasks : Cancel(t)

SpecConcurrent == InitConcurrent /\ [][NextConcurrent]_vars

(***************************************************************************)
(* The specification of a MemoryCache shared by tasks, each of which calls *)
(* one operation of the cache or fetch_file through the resolver, over     *)
(* sources that have one file, lack the path or fail                       *)
(***************************************************************************)
CacheOps == ReadOps \cup WriteOps

InitMemoryConcurrent ==
    /\ sources \in 0..CacheSpecSources
    /\ cacheKind = "memory"
    /\ store = EmptyStore
    /\ world \in [1..sources -> {c \in StaticConditions : c.etag = None}]
    /\ fsys = "ok"
    /\ root = TRUE
    /\ calls = [t \in Tasks |-> NotCalled]
    /\ lock = NoLock
    /\ last = Idle

NextMemoryConcurrent ==
    \/ \E t \in Tasks, path \in Paths : Call(t, path)
    \/ \E t \in Tasks, op \in CacheOps, key \in CacheKeys,
          value \in Contents : CacheCall(t, op, key, value)
    \/ \E t \in Tasks : LockRead(t)
    \/ \E t \in Tasks : LockWrite(t)
    \/ \E t \in Tasks : CallCacheGet(t)
    \/ \E t \in Tasks : CallSource(t)
    \/ \E t \in Tasks : CallCacheSet(t)
    \/ \E t \in Tasks : CallCacheContains(t)
    \/ \E t \in Tasks : CallCacheRemove(t)
    \/ \E t \in Tasks : CallCacheClear(t)

SpecMemoryConcurrent == InitMemoryConcurrent /\ [][NextMemoryConcurrent]_vars

(***************************************************************************)
(* The specification of a DiskCache shared by tasks that set and get       *)
(* values of different lengths                                             *)
(***************************************************************************)
RaceValues == {"A", "ZZ", "AAA"}

InitDiskRace ==
    /\ sources = 0
    /\ cacheKind = "disk"
    /\ store \in {EmptyStore}
                 \cup {Insert(EmptyStore, key_to_path(k), v) :
                          k \in CacheKeys, v \in RaceValues}
    /\ world = <<>>
    /\ fsys = "ok"
    /\ root = TRUE
    /\ calls = [t \in Tasks |-> NotCalled]
    /\ lock = NoLock
    /\ last = Idle

NextDiskRace ==
    \/ \E t \in Tasks, op \in {"get", "set"}, key \in CacheKeys,
          value \in RaceValues : CacheCall(t, op, key, value)
    \/ \E t \in Tasks : CallCacheGet(t)
    \/ \E t \in Tasks : CallCacheSet(t)
    \/ \E t \in Tasks : CallCacheSetEnd(t)

SpecDiskRace == InitDiskRace /\ [][NextDiskRace]_vars

(***************************************************************************)
(* The specification of the resolver's four calls taken turn by turn of    *)
(* their loops, by tasks whose source calls and cache calls all return     *)
(***************************************************************************)
InitCalls ==
    /\ sources \in 0..NumSources
    /\ cacheKind \in {"none"} \cup CacheKinds
    /\ store = EmptyStore
    /\ world \in [1..sources -> {c \in StaticConditions : c.etag = None}]
    /\ fsys = "ok"
    /\ root = TRUE
    /\ calls = [t \in 1..CallTasks |-> NotCalled]
    /\ lock = NoLock
    /\ last = Idle

\* What a task does next once it has made its call.
Step(t) ==
    \/ LockRead(t)
    \/ LockWrite(t)
    \/ CallCacheGet(t)
    \/ CallSource(t)
    \/ CallCacheSet(t)
    \/ CallCacheSetEnd(t)
    \/ CallListSource(t)
    \/ CallMergeSource(t)
    \/ CallExistsSource(t)

NextCalls ==
    \/ \E t \in 1..CallTasks, path \in Paths : Call(t, path)
    \/ \E t \in 1..CallTasks, path \in DirPaths :
          CallListDirectory(t, path)
    \/ \E t \in 1..CallTasks, path \in DirPaths :
          CallListDirectoryMerged(t, path)
    \/ \E t \in 1..CallTasks, path \in Paths : CallFileExists(t, path)
    \/ \E t \in 1..CallTasks : Step(t)

\* Every source call and cache call returns, and the runtime polls every
\* task that can go on: a task that can take its next step takes it.
SpecCalls ==
    InitCalls /\ [][NextCalls]_vars
        /\ \A t \in 1..CallTasks : WF_vars(Step(t))

(***************************************************************************)
(* GitHubSource: a ContentSource over raw.githubusercontent.com and the    *)
(* GitHub REST API, by what the server answers at present                  *)
(***************************************************************************)
InvalidStructure(message) == [kind |-> "InvalidStructure", info |-> message]

\* The base_path a GitHubSource is made with.
BasePaths == {"", "base", "base/"}

\* str::trim_start_matches('/') and str::trim_end_matches('/').
RECURSIVE trim_start_matches(_)
trim_start_matches(s) ==
    IF Len(s) > 0 /\ SubSeq(s, 1, 1) = "/"
    THEN trim_start_matches(SubSeq(s, 2, Len(s)))
    ELSE s
RECURSIVE trim_end_matches(_)
trim_end_matches(s) ==
    IF Len(s) > 0 /\ SubSeq(s, Len(s), Len(s)) = "/"
    THEN trim_end_matches(SubSeq(s, 1, Len(s) - 1))
    ELSE s

\* str::strip_prefix: Some(rest) when s starts with prefix.
strip_prefix(s, prefix) ==
    IF Len(prefix) <= Len(s) /\ SubSeq(s, 1, Len(prefix)) = prefix
    THEN SubSeq(s, Len(prefix) + 1, Len(s))
    ELSE None

join_path(base_path, path) ==
    LET p == trim_start_matches(path)
    IN  IF base_path = ""
        THEN p
        ELSE trim_end_matches(base_path) \o "/" \o p

strip_base_path(base_path, path) ==
    IF base_path = ""
    THEN path
    ELSE LET base == trim_end_matches(base_path)
             path_trimmed == trim_start_matches(path)
             relative == strip_prefix(path_trimmed, base)
         IN  IF relative # None
             THEN trim_start_matches(relative)
             ELSE path

raw_url(base_path, path) ==
    "https://raw.githubusercontent.com/owner/repo/main/"
        \o join_path(base_path, path)

api_url(base_path, path) ==
    "https://api.github.com/repos/owner/repo/contents/"
        \o join_path(base_path, path) \o "?ref=main"

\* The status codes a server answers with, and StatusCode's Display.
StatusCodes == {200, 401, 403, 404, 429, 500}
StatusDisplay(status) ==
    CASE status = 200 -> "200 OK"
      [] status = 401 -> "401 Unauthorized"
      [] status = 403 -> "403 Forbidden"
      [] status = 404 -> "404 Not Found"
      [] status = 429 -> "429 Too Many Requests"
      [] status = 500 -> "500 Internal Server Error"

is_rate_limit_error(status) == status = 403 \/ status = 429

\* GitHubApiEntry, an element of the API's JSON array.
GitHubApiEntry(name, path, entry_type) ==
    [name |-> name, path |-> path, entry_type |-> entry_type]

\* Response bodies: the text, whether it deserializes as
\* Vec<GitHubApiEntry>, and the entries it then gives.
Body(text, parses, entries) ==
    [text |-> text, parses |-> parses, entries |-> entries]
Bodies ==
    {Body("A", FALSE, <<>>),
     Body("{message: denied}", FALSE, <<>>),
     Body("[]", TRUE, <<>>),
     Body("[x, y]", TRUE,
          <<GitHubApiEntry("x", "base/d/x", "file"),
            GitHubApiEntry("y", "base/d/y", "dir")>>),
     Body("[y, x]", TRUE,
          <<GitHubApiEntry("y", "d/y", "symlink"),
            GitHubApiEntry("x", "/base/d/x", "file")>>)}

\* An etag header value that is not visible ASCII: HeaderValue::to_str
\* fails on it.
Opaque == "<opaque>"
EtagHeaders == {None, "etag-1", Opaque}
header_to_str(v) == IF v = Opaque THEN None ELSE v

\* What a GitHubSource meets: its base_path, whether send() gets a response
\* at all, and the response: status, etag header, whether the body can be
\* read to its end, and the body.
GitHubCondition(base_path, sent, status, etag, readable, body) ==
    [base_path |-> base_path, sent |-> sent, status |-> status,
     etag |-> etag, readable |-> readable, body |-> body]
GitHubConditions ==
    {GitHubCondition(b, TRUE, st, e, r, body) :
        b \in BasePaths, st \in StatusCodes, e \in EtagHeaders,
        r \in BOOLEAN, body \in Bodies}
    \cup {GitHubCondition(b, FALSE, 200, None, FALSE, Body("", FALSE, <<>>)) :
             b \in BasePaths}

\* response.text().await, with what is used in its place when it fails.
ResponseText(g, default) == IF g.readable THEN g.body.text ELSE default

\* The error arms both operations share: 404, a rate limit status, and any
\* other status.
GitHubStatusError(g, path) ==
    CASE g.status = 404 -> NotFound(path)
      [] is_rate_limit_error(g.status) ->
           RateLimited(ResponseText(g, "GitHub API rate limit exceeded"))
      [] OTHER ->
           InvalidStructure("Unexpected status " \o StatusDisplay(g.status)
                                \o ": " \o ResponseText(g, ""))

\* GitHubSource::fetch_file
GitHubSourceFetchFile(g, path) ==
    IF ~g.sent
    THEN Err(Network("send"))
    ELSE IF g.status = 200
    THEN IF g.readable
         THEN Ok(FileContent(g.body.text, raw_url(g.base_path, path),
                             header_to_str(g.etag)))
         ELSE Err(Network("body"))
    ELSE Err(GitHubStatusError(g, path))

\* EntryType of a GitHubApiEntry's type.
ApiEntryType(entry_type) == IF entry_type = "dir" THEN "Dir" ELSE "File"

\* GitHubSource::list_directory
GitHubSourceListDirectory(g, path) ==
    IF ~g.sent
    THEN Err(Network("send"))
    ELSE IF g.status = 200
    THEN IF g.readable /\ g.body.parses
         THEN Ok(DirectoryListing(path,
                  [k \in 1..Len(g.body.entries) |->
                      LET e == g.body.entries[k]
                      IN  DirectoryEntry(e.name,
                                         strip_base_path(g.base_path, e.path),
                                         ApiEntryType(e.entry_type))]))
         ELSE Err(Network("decode"))
    ELSE Err(GitHubStatusError(g, path))

GitHubFetchFileCall(path) ==
    /\ last' = [op |-> "github_fetch_file", path |-> path,
                res |-> GitHubSourceFetchFile(world[1], path)]
    /\ UNCHANGED <<sources, cacheKind, store, world, fsys, root, calls, lock>>

GitHubListDirectoryCall(path) ==
    /\ last' = [op |-> "github_list_directory", path |-> path,
                res |-> GitHubSourceListDirectory(world[1], path)]
    /\ UNCHANGED <<sources, cacheKind, store, world, fsys, root, calls, lock>>

\* The server's next answer differs from its present one.
ServerChange(g) ==
    /\ g # world[1]
    /\ g.base_path = world[1].base_path
    /\ world' = <<g>>
    /\ last' = Idle
    /\ UNCHANGED <<sources, cacheKind, store, fsys, root, calls, lock>>

\* GitHubSource::new, called directly.
InitGitHub ==
    /\ sources = 1
    /\ cacheKind = "none"
    /\ store = EmptyStore
    /\ world \in [1..1 -> GitHubConditions]
    /\ fsys = "ok"
    /\ root = TRUE
    /\ calls = NoCalls
    /\ lock = NoLock
    /\ last = Idle

NextGitHub ==
    \/ \E path \in Paths \cup {"/a.txt"} : GitHubFetchFileCall(path)
    \/ \E path \in DirPaths : GitHubListDirectoryCall(path)
    \/ \E g \in GitHubConditions : ServerChange(g)

SpecGitHub == InitGitHub /\ [][NextGitHub]_vars

(***************************************************************************)
(* The specification of GitHubSource's path functions, over every          *)
(* base_path and every path made of two names' letters and '/'             *)
(***************************************************************************)
PathChars == {"a", "b", "/"}

RECURSIVE StringsUpTo(_)
StringsUpTo(n) ==
    IF n = 0
    THEN {""}
    ELSE LET shorter == StringsUpTo(n - 1)
         IN  shorter \cup {s \o c : s \in shorter, c \in PathChars}

\* GitHubSource::new with a base_path; no request is sent.
Unsent(base_path) ==
    GitHubCondition(base_path, FALSE, 200, None, FALSE, Body("", FALSE, <<>>))

JoinPathCall(path) ==
    /\ last' = [op |-> "join_path", path |-> path,
                res |-> join_path(world[1].base_path, path)]
    /\ UNCHANGED <<sources, cacheKind, store, world, fsys, root, calls, lock>>

StripBasePathCall(path) ==
    /\ last' = [op |-> "strip_base_path", path |-> path,
                res |-> strip_base_path(world[1].base_path, path)]
    /\ UNCHANGED <<sources, cacheKind, store, world, fsys, root, calls, lock>>

InitGitHubPaths ==
    /\ sources = 1
    /\ cacheKind = "none"
    /\ store = EmptyStore
    /\ world \in {<<Unsent(b)>> : b \in StringsUpTo(MaxBaseLen)}
    /\ fsys = "ok"
    /\ root = TRUE
    /\ calls = NoCalls
    /\ lock = NoLock
    /\ last = Idle

NextGitHubPaths ==
    \/ \E path \in StringsUpTo(MaxPathLen) : JoinPathCall(path)
    \/ \E path \in StringsUpTo(MaxPathLen) : StripBasePathCall(path)

SpecGitHubPaths == InitGitHubPaths /\ [][NextGitHubPaths]_vars

(***************************************************************************)
(* What the sources answer at present, for the properties below            *)
(***************************************************************************)
FileAnswer(i, path) == SourceFetchFile(world[i], path)
ListAnswer(i, path) == SourceListDirectory(world[i], path)

IsNotFound(r) == ~r.ok /\ r.err.kind = "NotFound"
IsOtherError(r) == ~r.ok /\ r.err.kind # "NotFound"

\* fetch_file has just returned, having found no cache or missed it.
FetchedFromSources ==
    last.op = "fetch_file" /\ last.lookup \in {"none", "miss"}
Listed == last.op = "list_directory"

\* Source i is the first that succeeds.
FirstFile(i, path) ==
    /\ FileAnswer(i, path).ok
    /\ \A j \in 1..(i - 1) : ~FileAnswer(j, path).ok
FirstListing(i, path) ==
    /\ ListAnswer(i, path).ok
    /\ \A j \in 1..(i - 1) : ~ListAnswer(j, path).ok

(***************************************************************************)
(* Properties                                                              *)
(***************************************************************************)
\* C1: when the path is present in source i and sources 1..i-1 answer
\* NotFound, a fetch_file without a cache or missing the cache returns source
\* i's content, whatever the later sources hold.
C1_FirstPresentSource ==
    FetchedFromSources =>
        \A i \in 1..sources :
            ( /\ FileAnswer(i, last.path).ok
              /\ \A j \in 1..(i - 1) : IsNotFound(FileAnswer(j, last.path)) )
            => /\ last.res.ok
               /\ last.res.val.content = FileAnswer(i, last.path).val.content

\* C1's case: the first source lacks the path, the second has it, and
\* fetch_file has missed the cache.
C1_Witness ==
    /\ sources >= 2
    /\ last.op = "fetch_file" /\ last.lookup = "miss"
    /\ IsNotFound(FileAnswer(1, last.path))
    /\ FileAnswer(2, last.path).ok
    /\ last.from = 2
\* C2 as stated: every successful fetch_file or list_directory, with or
\* without a cache, returns the answer of the lowest-index source that
\* succeeds for the path at the time of the call.
C2_Original ==
    /\ (last.op = "fetch_file" /\ last.res.ok) =>
          \A i \in 1..sources :
              FirstFile(i, last.path) =>
                  last.res.val.content = FileAnswer(i, last.path).val.content
    /\ (Listed /\ last.res.ok) =>
          \A i \in 1..sources :
              FirstListing(i, last.path) => last.res = ListAnswer(i, last.path)

\* C2, amended: a list_directory, and a fetch_file that is not served from
\* the cache, return the answer of the lowest-index source that succeeds
\* at the time of the call, and succeed only if one does.
C2_SourcePriority ==
    /\ FetchedFromSources =>
          /\ \A i \in 1..sources :
                 FirstFile(i, last.path) => last.res = FileAnswer(i, last.path)
          /\ last.res.ok => \E i \in 1..sources : FirstFile(i, last.path)
    /\ Listed =>
          /\ \A i \in 1..sources :
                 FirstListing(i, last.path) =>
                     last.res = ListAnswer(i, last.path)
          /\ last.res.ok => \E i \in 1..sources : FirstListing(i, last.path)

\* C2's case: two sources list the directory differently, a cache is
\* attached, and list_directory has returned.
C2_Witness ==
    /\ sources >= 2 /\ cacheKind # "none"
    /\ Listed
    /\ ListAnswer(1, last.path).ok /\ ListAnswer(2, last.path).ok
    /\ ListAnswer(1, last.path) # ListAnswer(2, last.path)
    /\ last.res = ListAnswer(1, last.path)

\* C3: when every source answers NotFound (or there is no source) and the
\* path is not in the cache, fetch_file fails with NotFound carrying the
\* path asked for, whatever path the sources' NotFound errors carry.
C3_NotFoundWithRequestedPath ==
    ( /\ FetchedFromSources
      /\ \A i \in 1..sources : IsNotFound(FileAnswer(i, last.path)) )
    => last.res = Err(NotFound(last.path))

\* C3's case: a source's NotFound carries another path than the one asked.
C3_Witness ==
    /\ FetchedFromSources
    /\ \A i \in 1..sources : IsNotFound(FileAnswer(i, last.path))
    /\ \E i \in 1..sources :
          FileAnswer(i, last.path).err # NotFound(last.path)
    /\ last.consulted # <<>>

\* C4: when a source A fails with an error other than NotFound and a later
\* source B is the first to succeed, fetch_file and list_directory return
\* B's answer as a success.
C4_ErrorShadowedBySuccess ==
    /\ FetchedFromSources =>
          \A a, b \in 1..sources :
              ( /\ a < b
                /\ IsOtherError(FileAnswer(a, last.path))
                /\ FirstFile(b, last.path) )
              => last.res = FileAnswer(b, last.path)
    /\ Listed =>
          \A a, b \in 1..sources :
              ( /\ a < b
                /\ IsOtherError(ListAnswer(a, last.path))
                /\ FirstListing(b, last.path) )
              => last.res = ListAnswer(b, last.path)

\* C4's case: the first source is rate limited or unreachable, the second
\* has the file, and fetch_file has consulted both.
C4_Witness ==
    /\ sources >= 2
    /\ FetchedFromSources
    /\ IsOtherError(FileAnswer(1, last.path))
    /\ FileAnswer(2, last.path).ok
    /\ last.consulted = <<1, 2>>

\* C5: when no source succeeds and one reports an error other than
\* NotFound, fetch_file and list_directory fail with exactly the error of
\* the highest-index such source.
C5_LastErrorSurvives ==
    /\ FetchedFromSources =>
          \A i \in 1..sources :
              ( /\ \A j \in 1..sources : ~FileAnswer(j, last.path).ok
                /\ IsOtherError(FileAnswer(i, last.path))
                /\ \A j \in (i + 1)..sources :
                      IsNotFound(FileAnswer(j, last.path)) )
              => last.res = FileAnswer(i, last.path)
    /\ Listed =>
          \A i \in 1..sources :
              ( /\ \A j \in 1..sources : ~ListAnswer(j, last.path).ok
                /\ IsOtherError(ListAnswer(i, last.path))
                /\ \A j \in (i + 1)..sources :
                      IsNotFound(ListAnswer(j, last.path)) )
              => last.res = ListAnswer(i, last.path)

\* C5's case: two sources fail with different errors, none succeeds, and
\* list_directory has returned the second one's.
C5_Witness ==
    /\ sources >= 2
    /\ Listed
    /\ \A j \in 1..sources : ~ListAnswer(j, last.path).ok
    /\ IsOtherError(ListAnswer(1, last.path))
    /\ IsOtherError(ListAnswer(2, last.path))
    /\ ListAnswer(1, last.path) # ListAnswer(2, last.path)
    /\ \A j \in 3..sources : IsNotFound(ListAnswer(j, last.path))
    /\ last.res = ListAnswer(2, last.path)
\* The cache as the properties below see it: whether it keeps what is set
\* at present, whether it holds an entry for a path, and the entry's bytes.
Worlds == [1..sources -> CoreConditions]
KeepsWrites == cacheKind = "memory" \/ (cacheKind = "disk" /\ fsys = "ok")
WriteFails ==
    cacheKind = "disk" /\ fsys \in {"mkdir_fail", "write_fail", "write_torn"}
StoreKey(path) ==
    IF cacheKind = "disk"
    THEN key_to_path(FileCacheKey(path))
    ELSE FileCacheKey(path)
HoldsEntry(path) ==
    cacheKind \in {"memory", "disk"} /\ StoreKey(path) \in DOMAIN store

C7_Original ==
    [][ \A p \in Paths :
          (HoldsEntry(p) /\ FetchFile(p)) =>
              /\ last'.res =
                     Ok(FileContent(store[StoreKey(p)], "cache:" \o p, None))
              /\ last'.consulted = <<>> ]_vars

\* C7, amended: whenever the cache's get answers an entry for "file:"+p
\* (the entry is held and reading it does not fail), fetch_file(p) returns
\* the entry's bytes with source_path "cache:"+p and no etag, and calls no
\* source, whatever the sources would answer.
C7_CacheHit ==
    [][ \A p \in Paths :
          ( /\ HoldsEntry(p)
            /\ ~(cacheKind = "disk" /\ fsys = "read_fail")
            /\ FetchFile(p) ) =>
              /\ last'.res =
                     Ok(FileContent(store[StoreKey(p)], "cache:" \o p, None))
              /\ last'.consulted = <<>>
              /\ last'.from = 0 ]_vars

\* C7's case: fetch_file was served from a memory cache while the first
\* source has other content and a later one fails.
C7_Witness ==
    /\ sources >= 2 /\ cacheKind = "memory"
    /\ last.op = "fetch_file" /\ last.lookup = "hit"
    /\ last.res.val.source_path = "cache:" \o last.path
    /\ FileAnswer(1, last.path).ok
    /\ FileAnswer(1, last.path).val.content # last.res.val.content
    /\ IsOtherError(FileAnswer(2, last.path))

\* C8: after fetch_file(p) succeeded from a source through a cache that
\* keeps what is set, the cache holds exactly the fetched bytes under
\* "file:"+p, and every key of the cache is the key of a path.
C8_CachedPerPath ==
    /\ (FetchedFromSources /\ last.from # 0 /\ KeepsWrites) =>
          /\ HoldsEntry(last.path)
          /\ store[StoreKey(last.path)] =
                 FileAnswer(last.from, last.path).val.content
          /\ last.res = FileAnswer(last.from, last.path)
    /\ DOMAIN store \subseteq {StoreKey(p) : p \in Paths}

\* C8's case: the second source, whose source_path is not the path asked
\* for, answered and its bytes are in the disk cache.
C8_Witness ==
    /\ cacheKind = "disk"
    /\ FetchedFromSources /\ last.from = 2
    /\ last.res.val.source_path # last.path
    /\ HoldsEntry(last.path)
    /\ store[StoreKey(last.path)] = last.res.val.content

\* C9: when the cache's set fails after a source answered, fetch_file
\* returns that source's answer as a success and consults no later source.
C9_WriteFailureSwallowed ==
    (WriteFails /\ FetchedFromSources) =>
        \A i \in 1..sources :
            FirstFile(i, last.path) =>
                /\ last.write = "failed"
                /\ last.res = FileAnswer(i, last.path)
                /\ last.consulted = [k \in 1..i |-> k]

\* C9's case: the disk cache's write failed after the first source
\* answered, and a later source has the path too.
C9_Witness ==
    /\ sources >= 2 /\ WriteFails
    /\ FetchedFromSources /\ last.write = "failed"
    /\ last.res.ok /\ last.consulted = <<1>>
    /\ FileAnswer(2, last.path).ok
\* The paths of the entries of a listing, and the entries and paths listed
\* by the sources that succeed at present.
PathsOf(entries) == {entries[k].path : k \in DOMAIN entries}
Succeeding(path) == {i \in 1..sources : ListAnswer(i, path).ok}
SucceedingEntries(path) ==
    UNION {{ListAnswer(i, path).val.entries[k] :
               k \in DOMAIN ListAnswer(i, path).val.entries} :
           i \in Succeeding(path)}
SucceedingPaths(path) == {e.path : e \in SucceedingEntries(path)}

\* C10: list_directory_merged returns one entry for each path listed by
\* the sources that succeeded, each an entry one of them listed, and no
\* path twice; failing sources add nothing, and the call succeeds as soon
\* as one source does.
C10_MergedOnePerPath ==
    last.op = "list_directory_merged" =>
        /\ Succeeding(last.path) # {} => last.res.ok
        /\ last.res.ok =>
              LET es == last.res.val.entries
              IN  /\ PathsOf(es) = SucceedingPaths(last.path)
                  /\ \A k, l \in DOMAIN es :
                        es[k].path = es[l].path => k = l
                  /\ \A k \in DOMAIN es :
                        es[k] \in SucceedingEntries(last.path)

\* C10's case: two sources list the same path, the earlier one another
\* path behind it, and the merged listing has returned the two paths.
C10_Witness ==
    /\ last.op = "list_directory_merged" /\ last.res.ok
    /\ \E i, j \in Succeeding(last.path) :
          /\ i < j
          /\ Len(ListAnswer(i, last.path).val.entries) = 2
          /\ PathsOf(ListAnswer(i, last.path).val.entries) = EntryPaths
          /\ ListAnswer(i, last.path).val.entries[1].path = "d/x"
          /\ Len(ListAnswer(j, last.path).val.entries) >= 1
          /\ ListAnswer(j, last.path).val.entries[1].path = "d/x"
    /\ Len(last.res.val.entries) = 2
MergedListed == last.op = "list_directory_merged"

\* C11: list_directory_merged fails exactly when no source succeeded (or
\* there is none), and then with NotFound carrying the path asked for,
\* whatever the sources' errors; it succeeds when a source succeeded, be
\* its listing empty.
C11_MergedFailsOnlyWhenNoneSucceeds ==
    MergedListed =>
        /\ Succeeding(last.path) = {} => last.res = Err(NotFound(last.path))
        /\ Succeeding(last.path) # {} =>
              /\ last.res.ok
              /\ last.res.val.path = last.path

\* C11's case: every source failed, one of them not with NotFound and one
\* with a NotFound of another path, and the merged listing has returned.
C11_Witness ==
    /\ MergedListed /\ sources >= 2
    /\ Succeeding(last.path) = {}
    /\ \E i \in 1..sources : IsOtherError(ListAnswer(i, last.path))
    /\ \E i \in 1..sources :
          ListAnswer(i, last.path) = Err(NotFound(""))
    /\ ~last.res.ok

\* The entry that the sources, asked in order, list first for a path: the
\* first of that path in the listing of the lowest-index succeeding source
\* that lists the path.
FirstListed(dir, p) ==
    LET i == CHOOSE i \in Succeeding(dir) :
                 /\ p \in PathsOf(ListAnswer(i, dir).val.entries)
                 /\ \A j \in Succeeding(dir) :
                       j < i => p \notin PathsOf(ListAnswer(j, dir).val.entries)
        es == ListAnswer(i, dir).val.entries
        k == CHOOSE k \in DOMAIN es :
                 /\ es[k].path = p
                 /\ \A l \in 1..(k - 1) : es[l].path # p
    IN  es[k]

\* C12: the entries of a merged listing ascend by path, and the entry kept
\* for a path is the first that the sources, in order, list for it.
C12_MergedSortedFirstKept ==
    (MergedListed /\ last.res.ok) =>
        LET es == last.res.val.entries
        IN  /\ \A k, l \in DOMAIN es :
                  k < l => PathLess(es[k].path, es[l].path)
            /\ \A k \in DOMAIN es : es[k] = FirstListed(last.path, es[k].path)

\* C12's case: two sources list one path with different entry types, the
\* earlier one behind a greater path, and the merged listing has returned.
C12_Witness ==
    /\ MergedListed /\ last.res.ok
    /\ \E i, j \in Succeeding(last.path) :
          LET a == ListAnswer(i, last.path).val.entries
              b == ListAnswer(j, last.path).val.entries
          IN  /\ i < j
              /\ Len(a) = 2 /\ Len(b) >= 1
              /\ a[1].path = "d/y" /\ a[2].path = "d/x"
              /\ b[1].path = "d/x"
              /\ b[1].entry_type # a[2].entry_type
              /\ last.res.val.entries = <<a[2], a[1]>>
\* What the ordered short-circuit algorithm gives for a directory, by the
\* sources' present answers alone: the listing of the first source that
\* succeeds, else the error of the last source that failed otherwise than
\* with NotFound, else NotFound of the path asked for.
ExpectedListing(path) ==
    IF \E i \in 1..sources : FirstListing(i, path)
    THEN ListAnswer(CHOOSE i \in 1..sources : FirstListing(i, path), path)
    ELSE IF \E i \in 1..sources : IsOtherError(ListAnswer(i, path))
    THEN ListAnswer(CHOOSE i \in 1..sources :
                        /\ IsOtherError(ListAnswer(i, path))
                        /\ \A j \in (i + 1)..sources :
                              ~IsOtherError(ListAnswer(j, path)),
                    path)
    ELSE Err(NotFound(path))

\* C13: every list_directory step returns what the ordered short-circuit
\* algorithm gives for the sources' answers, whatever the cache holds and
\* whether or not it can be read, and leaves the cache as it was.
C13_ListBypassesCache ==
    [][ last'.op = "list_directory" =>
          /\ last'.res = ExpectedListing(last'.path)
          /\ store' = store
          /\ UNCHANGED <<sources, cacheKind, world, fsys, root,
                         calls, lock>> ]_vars

\* C13's case: list_directory has succeeded while the disk cache holds an
\* entry and cannot be read.
C13_Witness ==
    /\ Listed /\ last.res.ok
    /\ cacheKind = "disk" /\ fsys = "read_fail"
    /\ store # EmptyStore
\* C14: file_exists is true, and has consulted the sources up to that one
\* only, when source i is the first to report the file; it is false, having
\* consulted every source, when none reports it; it is a boolean in every
\* case, whatever errors the sources fail with.
C14_FileExists ==
    last.op = "file_exists" =>
        /\ last.exists \in BOOLEAN
        /\ \A i \in 1..sources :
              ( /\ SourceFileExists(world[i], last.path)
                /\ \A j \in 1..(i - 1) :
                      ~SourceFileExists(world[j], last.path) )
              => /\ last.exists
                 /\ last.consulted = [k \in 1..i |-> k]
        /\ (\A i \in 1..sources : ~SourceFileExists(world[i], last.path))
              => /\ ~last.exists
                 /\ last.consulted = [k \in 1..sources |-> k]

\* C14's case: the first source fails with an error that is not NotFound,
\* the second has the file, and file_exists has answered true.
C14_Witness ==
    /\ sources >= 2
    /\ last.op = "file_exists" /\ last.exists
    /\ IsOtherError(FileAnswer(1, last.path))
    /\ last.consulted = <<1, 2>>
\* A set of the cache has just succeeded: Cache::set called directly, or
\* by fetch_file for the file it fetched; its key and its bytes.
JustSet ==
    \/ last.op = "cache_set" /\ last.res.ok
    \/ last.op = "fetch_file" /\ last.write = "ok"
JustSetKey ==
    IF last.op = "cache_set" THEN last.key ELSE FileCacheKey(last.path)
JustSetBytes ==
    IF last.op = "cache_set" THEN last.value ELSE last.res.val.content

\* The sources when none of them has a file.
LackingWorlds ==
    [1..sources -> {Failing("missing"), Failing("missing_other")}]

\* What C15 asks of a DiskCache made anew after a set of key k and bytes b
\* succeeded, when the filesystem does io to the reads that follow: get(k)
\* returns b, and fetch_file of k's path through a resolver whose sources
\* lack the path returns b.
DurableUnder(k, b, io) ==
    /\ CacheGet("disk", store', k, io) = Ok(b)
    /\ \A p \in Paths :
          k = FileCacheKey(p) =>
              \A w \in LackingWorlds :
                  LET again == fetch_file("disk", store', p, w, io)
                  IN  /\ again.res.ok
                      /\ again.res.val.content = b
                      /\ again.consulted = <<>>

\* C15 as stated: once DiskCache.set(k, b) has succeeded, a DiskCache made
\* anew over the same root returns b from get(k), and a new resolver over
\* it whose sources lack the path returns b from fetch_file.
C15_Original ==
    [][ ( /\ cacheKind = "disk" /\ JustSet
          /\ last'.op = "new" /\ last'.res.ok )
        => \A io \in IoOutcomes :
               DurableUnder(JustSetKey, JustSetBytes, io) ]_vars

\* C15, amended: the same, for reads of the new DiskCache that do not fail;
\* a read that fails gives the Cache error, from get and from fetch_file.
C15_DiskDurability ==
    [][ ( /\ cacheKind = "disk" /\ JustSet
          /\ last'.op = "new" /\ last'.res.ok )
        => /\ \A io \in IoOutcomes \ {"read_fail"} :
                 DurableUnder(JustSetKey, JustSetBytes, io)
           /\ ~CacheGet("disk", store', JustSetKey, "read_fail").ok
           /\ \A p \in Paths, w \in LackingWorlds :
                 JustSetKey = FileCacheKey(p) =>
                     fetch_file("disk", store', p, w, "read_fail").res
                         = CacheGet("disk", store', JustSetKey, "read_fail")
      ]_vars

\* C15's case: a DiskCache has been made anew over a root directory that
\* holds a fetched file, for a resolver whose source lacks the file now.
C15_Witness ==
    /\ cacheKind = "disk" /\ sources >= 1
    /\ last.op = "new" /\ last.res.ok
    /\ \E p \in Paths :
          /\ HoldsEntry(p)
          /\ store[StoreKey(p)] \in Contents
          /\ \A i \in 1..sources : IsNotFound(FileAnswer(i, p))
\* What a step of a cache operation must do to get(q) of a key-to-bytes
\* map, get(q) being `before` ahead of the step and `after` behind it: a
\* set of q makes it the bytes set, a remove of q and a clear make it an
\* absence, a get of q returns it, a contains of q tells whether it is
\* bytes, and nothing else changes it.
MapStep(q, before, after) ==
    CASE last'.op = "cache_set" ->
           /\ last'.res = Ok("()")
           /\ after = IF last'.key = q THEN Ok(last'.value) ELSE before
      [] last'.op = "cache_remove" ->
           /\ last'.res = Ok("()")
           /\ after = IF last'.key = q THEN Ok(None) ELSE before
      [] last'.op = "cache_clear" ->
           /\ last'.res = Ok("()")
           /\ after = Ok(None)
      [] last'.op = "cache_get" ->
           /\ after = before
           /\ last'.key = q => last'.res = before
      [] last'.op = "cache_contains" ->
           /\ after = before
           /\ last'.key = q => (last'.held <=> before # Ok(None))
      [] last'.op = "fetch_file" ->
           FileCacheKey(last'.path) # q => after = before
      [] last'.op = "new" -> after = Ok(None)
      [] OTHER -> after = before

\* C16: over every step, a MemoryCache's get, set, remove, clear and
\* contains do to get(q), for every key q, what they do on a key-to-bytes
\* map, and get never returns an error.
C16_MemoryCacheIsMap ==
    [][ cacheKind = "memory" =>
          \A q \in CacheKeys :
              /\ MemoryCacheGet(store, q).ok
              /\ MapStep(q, MemoryCacheGet(store, q),
                            MemoryCacheGet(store', q)) ]_vars

\* C16's case: get has returned the bytes of one key of a MemoryCache
\* whose other key is absent.
C16_Witness ==
    /\ cacheKind = "memory"
    /\ last.op = "cache_get" /\ last.res.ok /\ last.res.val \in Contents
    /\ \E q \in CacheKeys : q # last.key /\ ~MemoryCacheContains(store, q)
\* What a cache lets one observe of its contents st: for every key, what
\* get returns, the filesystem doing io to the read, and what contains
\* returns.
Observable(kind, st, io) ==
    [q \in CacheKeys |->
        [get |-> CacheGet(kind, st, q, io),
         contains |-> CacheContains(kind, st, q)]]
SameObservable(kind, st1, st2) ==
    \A io \in IoOutcomes : Observable(kind, st1, io) = Observable(kind, st2, io)

AsNewCache ==
    /\ SameObservable(cacheKind, store, EmptyStore)
    /\ \A q \in CacheKeys :
          /\ CacheGet(cacheKind, store, q, "ok") = Ok(None)
          /\ ~CacheContains(cacheKind, store, q)
    /\ \A k \in CacheKeys, v \in Contents, io \in IoOutcomes :
          CacheSet(cacheKind, store, k, v, io)
              = CacheSet(cacheKind, EmptyStore, k, v, io)
    /\ cacheKind = "disk" => root

\* C18 as stated: once clear() has returned, with whatever result, the
\* cache is as one made anew and empty.
C18_Original == last.op = "cache_clear" => AsNewCache

\* C18, amended: once clear() has returned Ok the cache is as one made
\* anew and empty; clear returns an error on a DiskCache only.
C18_ClearedWhenOk ==
    last.op = "cache_clear" =>
        /\ last.res.ok => AsNewCache
        /\ ~last.res.ok => cacheKind = "disk"

\* C18's case: clear has returned Ok on a DiskCache and has removed the
\* files of two keys.
C18_Witness ==
    /\ cacheKind = "disk"
    /\ last.op = "cache_clear" /\ last.res.ok
    /\ last.removed = {StoreKey(p) : p \in Paths}
    /\ store = EmptyStore /\ root
\* C19: a NoCache returns an absence from get and false from contains
\* after any calls, and accepts every set; a fetch_file through a resolver
\* with a NoCache returns what fetch_file through a resolver without a
\* cache returns over the same sources, having consulted the same sources.
C19_NoCacheIsNoCache ==
    cacheKind = "nocache" =>
        /\ \A q \in CacheKeys :
              /\ CacheGet(cacheKind, store, q, fsys) = Ok(None)
              /\ ~CacheContains(cacheKind, store, q)
        /\ last.op = "cache_set" => last.res = Ok("()")
        /\ last.op = "fetch_file" =>
              LET bare == fetch_file("none", EmptyStore, last.path,
                                     world, fsys)
              IN  /\ last.res = bare.res
                  /\ last.consulted = bare.consulted
                  /\ last.from = bare.from
                  /\ last.lookup = "miss"

\* C19's case: fetch_file through a resolver with a NoCache has fetched a
\* file from its second source, after both were consulted.
C19_Witness ==
    /\ cacheKind = "nocache" /\ sources >= 2
    /\ last.op = "fetch_file" /\ last.res.ok
    /\ last.consulted = <<1, 2>>
    /\ last.res = FileAnswer(2, last.path)

\* What a lone fetch_file(path) returns through the same resolver over a
\* new cache, and the calls that have returned.
LoneCall(path) == fetch_file(cacheKind, EmptyStore, path, world, "ok")
Returned == {t \in DOMAIN calls : calls[t].pc = "done"}
ReturnsLoneBytes(t) ==
    LET lone == LoneCall(calls[t].path).res
    IN  /\ calls[t].res.ok = lone.ok
        /\ calls[t].res.ok /\ lone.ok =>
               calls[t].res.val.content = lone.val.content
CacheHoldsLoneBytes ==
    Returned = DOMAIN calls /\ cacheKind \in {"memory", "disk"} =>
        \A t \in Returned :
            LoneCall(calls[t].path).res.ok =>
                Lookup(store, StoreKey(calls[t].path))
                    = LoneCall(calls[t].path).res.val.content

\* C20 as stated: over static sources, in every interleaving of fetch_file
\* calls in progress together on one resolver, with or without a cache,
\* each call returns the bytes a lone fetch_file of its path returns, and
\* once all have returned the cache holds those bytes for each fetched
\* path.  Violated with a DiskCache: a call's cache.get reads the file that
\* another call's cache.set has created and not yet filled, and the call
\* returns the empty file as a hit.
C20_Original ==
    /\ \A t \in Returned : ReturnsLoneBytes(t)
    /\ CacheHoldsLoneBytes

\* The calls are independent with every cache whose set is one step: none,
\* MemoryCache and NoCache.
IndependentUnlessDisk == cacheKind # "disk" => C20_Original

\* The calls that return what a lone call does not have returned
\* DiskCache's unfilled file.
DivergesByTruncatedHit ==
    \A t \in Returned :
        ~ReturnsLoneBytes(t) =>
            /\ cacheKind = "disk"
            /\ calls[t].res = Ok(CachedFileContent(calls[t].path, Truncated))

\* C27: a fetch_file call that misses the cache, or has none, consults the
\* sources in configured order, each at most once: the sources consulted
\* are 1, 2, .. n for some n up to the number of sources, and none of the
\* sources before the last one consulted had the file, so that no source
\* after the first success is consulted.
C27_SourcesInOrder ==
    last.op = "fetch_file" /\ last.lookup \in {"miss", "none"} =>
        LET n == Len(last.consulted)
        IN  /\ n <= sources
            /\ \A k \in 1..n : last.consulted[k] = k
            /\ \A k \in 1..(n - 1) : ~FileAnswer(k, last.path).ok

\* C27's case: a call that missed the cache was answered by the first of
\* two sources that both have the file, and consulted the first only.
C27_Witness ==
    /\ sources = 2
    /\ last.op = "fetch_file" /\ last.lookup = "miss"
    /\ FileAnswer(1, last.path).ok /\ FileAnswer(2, last.path).ok
    /\ last.consulted = <<1>>
    /\ last.res = FileAnswer(1, last.path)

\* C28: fetch_file and list_directory return NotFound only when nothing
\* matched: every source was consulted and every source reported NotFound
\* (or there are no sources); so NotFound is not returned when a source
\* has the path or when a source failed with another error.
C28_NotFoundOnlyWhenNothingMatched ==
    last.op \in {"fetch_file", "list_directory"} /\ IsNotFound(last.res) =>
        /\ last.consulted = [k \in 1..sources |-> k]
        /\ \A i \in 1..sources :
              IF last.op = "fetch_file"
              THEN IsNotFound(FileAnswer(i, last.path))
              ELSE IsNotFound(ListAnswer(i, last.path))

\* C28's case: list_directory over two sources that both report NotFound
\* has returned NotFound after consulting both.
C28_Witness ==
    /\ sources = 2
    /\ last.op = "list_directory" /\ IsNotFound(last.res)
    /\ last.consulted = <<1, 2>>
    /\ \A i \in 1..2 : IsNotFound(ListAnswer(i, last.path))

\* C29: list_directory_merged queries every configured source once, in
\* configured order, whether the sources before it succeeded or failed.
C29_MergedQueriesAll ==
    last.op = "list_directory_merged" =>
        last.consulted = [k \in 1..sources |-> k]

\* C29's case: list_directory_merged over two sources, the first of which
\* succeeds, has queried both and returned a listing.
C29_Witness ==
    /\ sources = 2
    /\ last.op = "list_directory_merged" /\ last.res.ok
    /\ ListAnswer(1, last.path).ok
    /\ last.consulted = <<1, 2>>

\* C30: a fetch_file(p) step changes the cache at no key but "file:"+p,
\* and leaves the cache as it was on a hit, on a failed lookup and when no
\* source succeeded.
C30_WritesOnlyOwnKey ==
    [][ last'.op = "fetch_file" =>
          /\ \A k \in (DOMAIN store \cup DOMAIN store')
                          \ {StoreKey(last'.path)} :
                /\ k \in DOMAIN store /\ k \in DOMAIN store'
                /\ store'[k] = store[k]
          /\ (last'.lookup \in {"hit", "fault"} \/ last'.from = 0) =>
                store' = store ]_vars

\* C30's case: a fetch_file that no source answered has returned, with a
\* cache that holds the other path and nothing for the path asked for.
C30_Witness ==
    /\ last.op = "fetch_file" /\ last.lookup = "miss" /\ last.from = 0
    /\ sources >= 1
    /\ ~HoldsEntry(last.path)
    /\ \E p \in Paths \ {last.path} : HoldsEntry(p)

\* The status of the response the GitHubSource has just answered.
Answered(statuses) == world[1].sent /\ world[1].status \in statuses

\* C25 as stated: GitHubSource maps every response of status 401, 403 or
\* 429 to RateLimited, in fetch_file and in list_directory.  Violated for
\* 401, which is_rate_limit_error does not name: the response falls to the
\* last arm and becomes InvalidStructure("Unexpected status 401 ..").
C25_Original ==
    last.op \in {"github_fetch_file", "github_list_directory"}
        /\ Answered({401, 403, 429}) =>
            ~last.res.ok /\ last.res.err.kind = "RateLimited"

\* What holds of the rejections: 403 and 429 become RateLimited with the
\* body's text, and 401 becomes InvalidStructure.
RejectionsAsCoded ==
    last.op \in {"github_fetch_file", "github_list_directory"} =>
        /\ Answered({403, 429}) =>
              last.res = Err(RateLimited(
                  ResponseText(world[1], "GitHub API rate limit exceeded")))
        /\ Answered({401}) =>
              ~last.res.ok /\ last.res.err.kind = "InvalidStructure"

\* C26 as stated: a response of status 200 whose body does not parse as
\* the JSON array of entries is reported by list_directory as
\* InvalidStructure.  Violated: response.json().await? fails with a
\* reqwest::Error, which `?` converts to ContentError::Network.
C26_Original ==
    last.op = "github_list_directory" /\ Answered({200})
        /\ world[1].readable /\ ~world[1].body.parses =>
            ~last.res.ok /\ last.res.err.kind = "InvalidStructure"

\* C21: MemoryCache's lock is a reader/writer lock in every interleaving of
\* get, contains, set, remove and clear calls: while a set, remove or clear
\* holds it for writing no other task holds it, and the tasks that hold it
\* for reading are in get or contains.
C21_ReaderWriterLock ==
    /\ lock.writers # {} =>
          Cardinality(lock.writers) = 1 /\ lock.readers = {}
    /\ \A t \in lock.writers : calls[t].pc \in WriteOps
    /\ \A t \in lock.readers : calls[t].pc \in ReadOps

\* C21's case: a get and a contains hold the lock for reading at once.
C21_Witness ==
    \E t, u \in lock.readers :
        calls[t].op = "get" /\ calls[u].op = "contains"

\* C22: no task holds MemoryCache's lock across a suspension point: a task
\* that holds the lock is inside a cache operation, between the grant of
\* the lock and the operation's return, and neither waits for a source nor
\* has returned.
C22_NoLockAcrossSuspension ==
    \A t \in DOMAIN calls :
        Holds(t) => calls[t].pc \in CacheOps

\* C22's case: a fetch_file call waits for its source, its cache.get
\* behind it, while another task holds the lock for writing.
C22_Witness ==
    \E t, u \in DOMAIN calls :
        /\ calls[t].op = "fetch_file" /\ calls[t].pc = "source"
        /\ calls[t].i <= sources
        /\ ~Holds(t)
        /\ u \in lock.writers

\* C23: a fetch_file call cancelled while it waits for a source writes
\* nothing to the cache, before or after.
C23_CancelledWritesNothing ==
    \A t \in DOMAIN calls :
        calls[t].op = "fetch_file" /\ calls[t].at = "source" =>
            ~calls[t].wrote

\* C23's case: a call was cancelled while it waited for a source that has
\* the file, with a cache that keeps what is set and holds nothing for the
\* path.
C23_Witness ==
    \E t \in DOMAIN calls :
        /\ calls[t].op = "fetch_file" /\ calls[t].at = "source"
        /\ calls[t].pc = "cancelled"
        /\ calls[t].i <= sources
        /\ SourceFetchFile(world[calls[t].i], calls[t].path).ok
        /\ cacheKind \in {"memory", "disk"}
        /\ ~HoldsEntry(calls[t].path)

\* The set calls on a key, and the one of them that returned last.
SetsOn(k) ==
    {t \in DOMAIN calls : calls[t].op = "set" /\ calls[t].key = k}
LastCompleted(S) == CHOOSE u \in S : \A t \in S : calls[t].nth <= calls[u].nth

\* C24 as stated: once the set calls on one key of a DiskCache, made
\* together with different values, have all returned, a get of the key
\* returns the bytes of the set that returned last.  Violated: each
\* fs::write truncates the file and then writes from the file's start, so
\* a shorter value written last over a longer one leaves the longer
\* value's tail.
C24_Original ==
    cacheKind = "disk" =>
        \A k \in CacheKeys :
            LET S == SetsOn(k)
            IN  /\ Cardinality(S) >= 2
                /\ \A t \in S : calls[t].pc = "done"
                /\ \E t, u \in S : calls[t].value # calls[u].value
                => DiskCacheGet(store, k, fsys)
                       = Ok(calls[LastCompleted(S)].value)

\* What holds of the sets on one key: the file is never absent once a set
\* has begun, and after sets of values of one length it holds the value
\* of the set that returned last.
LastWriteWinsAtEqualLength ==
    cacheKind = "disk" =>
        \A k \in CacheKeys :
            LET S == SetsOn(k)
            IN  /\ (\E t \in S : calls[t].pc \in {"writing", "done"}) =>
                       key_to_path(k) \in DOMAIN store
                /\ (/\ S # {}
                    /\ \A t \in S : calls[t].pc = "done"
                    /\ \A t, u \in S :
                          Len(calls[t].value) = Len(calls[u].value))
                   => DiskCacheGet(store, k, fsys)
                          = Ok(calls[LastCompleted(S)].value)

\* C31: when the attached cache's get fails for "file:"+p (a DiskCache
\* whose read fails otherwise than for a missing file), a fetch_file(p)
\* step returns that error, consults no source and leaves the cache as it
\* was, whether or not the cache holds the entry and whatever the sources
\* would answer.
C31_ReadFaultPropagates ==
    [][ \A p \in Paths :
          LET got == CacheGet(cacheKind, store, FileCacheKey(p), fsys)
          IN  ( /\ cacheKind # "none"
                /\ ~got.ok
                /\ last'.op = "fetch_file" /\ last'.path = p ) =>
                  /\ last'.res = Err(got.err)
                  /\ last'.consulted = <<>>
                  /\ last'.from = 0
                  /\ store' = store
                  /\ root' = root ]_vars

\* C31's case: the disk cache cannot be read and holds nothing for the
\* path, the first source has the file, and fetch_file has returned the
\* cache's error.
C31_Witness ==
    /\ cacheKind = "disk" /\ fsys = "read_fail"
    /\ last.op = "fetch_file"
    /\ ~last.res.ok /\ last.res.err.kind = "Cache"
    /\ sources >= 1
    /\ FileAnswer(1, last.path).ok
    /\ ~HoldsEntry(last.path)

\* A step that is not a direct call on the cache puts bytes under the key
\* k, or changes the bytes under it.
ResolverWrites(k) ==
    /\ last'.op \notin {"cache_set", "cache_remove", "cache_clear", "new"}
    /\ k \in DOMAIN store'
    /\ (k \in DOMAIN store => store'[k] # store[k])

\* C32 as stated: the cache starts empty, and every entry that a step of
\* the resolver puts or changes is put under "file:"+p by a fetch_file(p)
\* in which a source answered, and holds the bytes that source returned for
\* p; so no entry ever holds bytes that no source produced for its path.
C32_Original ==
    [][ \A k \in DOMAIN store' :
          ResolverWrites(k) =>
              /\ last'.op = "fetch_file"
              /\ k = StoreKey(last'.path)
              /\ last'.from # 0
              /\ FileAnswer(last'.from, last'.path).ok
              /\ store'[k] =
                     FileAnswer(last'.from, last'.path).val.content ]_vars

\* What holds of the entries the resolver writes: each is put by a
\* fetch_file(p) under "file:"+p after a source answered, and holds that
\* source's bytes unless the disk cache's write failed after creating the
\* file, which leaves the file empty; a MemoryCache holds source bytes only.
WritesSourceBytesUnlessTorn ==
    [][ \A k \in DOMAIN store' :
          ResolverWrites(k) =>
              /\ last'.op = "fetch_file"
              /\ k = StoreKey(last'.path)
              /\ last'.from # 0
              /\ FileAnswer(last'.from, last'.path).ok
              /\ \/ store'[k] =
                        FileAnswer(last'.from, last'.path).val.content
                 \/ /\ cacheKind = "disk" /\ fsys = "write_torn"
                    /\ last'.write = "failed"
                    /\ store'[k] = Truncated ]_vars

\* file_exists has just returned for a path that the cache holds and that
\* no source has at present.
CachedButGone(p) ==
    /\ last'.op = "file_exists" /\ last'.path = p
    /\ HoldsEntry(p)
    /\ \A i \in 1..sources : ~FileAnswer(i, p).ok

\* C33 as stated: file_exists leaves the cache as it was and answers by
\* the sources alone; for a path whose bytes are cached and that no source
\* has, it answers false while fetch_file for the path succeeds from the
\* cache.
C33_Original ==
    [][ \A p \in Paths :
          /\ (last'.op = "file_exists" /\ last'.path = p) =>
                /\ store' = store /\ root' = root
                /\ last'.exists = (\E i \in 1..sources : FileAnswer(i, p).ok)
          /\ CachedButGone(p) =>
                /\ ~last'.exists
                /\ fetch_file(cacheKind, store', p, world, fsys).res =
                       Ok(CachedFileContent(p, store'[StoreKey(p)])) ]_vars

\* C33, amended: file_exists leaves the cache as it was and answers by the
\* sources alone, whatever the cache holds and whether or not it can be
\* read; for a path whose bytes are cached and that no source has, it
\* answers false, while fetch_file for the path returns the cached bytes
\* when the cache can be read and the cache's error when it cannot.
C33_FileExistsIgnoresCache ==
    [][ \A p \in Paths :
          /\ (last'.op = "file_exists" /\ last'.path = p) =>
                /\ store' = store /\ root' = root
                /\ last'.exists = (\E i \in 1..sources : FileAnswer(i, p).ok)
          /\ CachedButGone(p) =>
                /\ ~last'.exists
                /\ fetch_file(cacheKind, store', p, world, fsys).res =
                       IF cacheKind = "disk" /\ fsys = "read_fail"
                       THEN Err(CacheError("Failed to read from disk cache"))
                       ELSE Ok(CachedFileContent(p, store'[StoreKey(p)]))
      ]_vars

\* C33's case: file_exists has answered false for a path that no source
\* has and that a readable cache holds, from which fetch_file succeeds.
C33_Witness ==
    /\ last.op = "file_exists" /\ ~last.exists
    /\ sources >= 1
    /\ HoldsEntry(last.path)
    /\ ~(cacheKind = "disk" /\ fsys = "read_fail")
    /\ \A i \in 1..sources : ~FileAnswer(i, last.path).ok
    /\ fetch_file(cacheKind, store, last.path, world, fsys).res.ok
    /\ fetch_file(cacheKind, store, last.path, world, fsys).lookup = "hit"

\* C34: with no cache attached and sources that keep their content,
\* file_exists(p) is true exactly when fetch_file(p) succeeds, and both ask
\* the same sources in the same order, passing over every source that fails,
\* with NotFound or with another error: seen after a file_exists and after
\* a fetch_file, against the other operation on the same sources.
C34_ExistsIffFetchSucceeds ==
    cacheKind = "none" =>
        /\ last.op = "file_exists" =>
              LET f == fetch_file(cacheKind, store, last.path, world, fsys)
              IN  /\ last.exists = f.res.ok
                  /\ last.consulted = f.consulted
        /\ last.op = "fetch_file" =>
              LET e == file_exists(last.path, world)
              IN  /\ last.res.ok = e.exists
                  /\ last.consulted = e.consulted

\* C34's case: without a cache, the first source fails with an error that
\* is not NotFound and the second has the file; file_exists has answered
\* true and fetch_file succeeds from the second source.
C34_Witness ==
    /\ cacheKind = "none" /\ sources >= 2
    /\ last.op = "file_exists" /\ last.exists
    /\ IsOtherError(FileAnswer(1, last.path))
    /\ FileAnswer(2, last.path).ok
    /\ fetch_file(cacheKind, store, last.path, world, fsys).from = 2

\* C35: on the same sources list_directory(p) succeeds exactly when
\* list_directory_merged(p) does, and every entry path list_directory
\* returns is a path of the merged listing: seen after a list_directory
\* and after a list_directory_merged, against the other operation.
C35_ListedWithinMerged ==
    /\ last.op = "list_directory" =>
          LET m == list_directory_merged(last.path, world).res
          IN  /\ last.res.ok = m.ok
              /\ last.res.ok =>
                    PathsOf(last.res.val.entries)
                        \subseteq PathsOf(m.val.entries)
    /\ last.op = "list_directory_merged" =>
          LET l == list_directory(last.path, world).res
          IN  /\ last.res.ok = l.ok
              /\ last.res.ok =>
                    PathsOf(l.val.entries)
                        \subseteq PathsOf(last.res.val.entries)

\* C35's case: the first source fails with an error that is not NotFound
\* and the second lists one path twice; list_directory has returned the
\* second source's two entries, and the merged listing succeeds as well.
C35_Witness ==
    /\ last.op = "list_directory" /\ last.res.ok
    /\ sources >= 2
    /\ IsOtherError(ListAnswer(1, last.path))
    /\ last.from = 2
    /\ Len(last.res.val.entries) = 2
    /\ Cardinality(PathsOf(last.res.val.entries)) = 1
    /\ list_directory_merged(last.path, world).res.ok

\* The sources a call has called are at most as many as the resolver's
\* sources, each a source of the resolver, none called twice.
SourceCallsBounded(t) ==
    LET c == calls[t].consulted
    IN  /\ Len(c) <= sources
        /\ \A k \in DOMAIN c : c[k] \in 1..sources
        /\ \A k, l \in DOMAIN c : c[k] = c[l] => k = l

\* C36: a fetch_file, list_directory, list_directory_merged or file_exists
\* call on a resolver with N sources never makes more than N source calls,
\* nor two to one source, and, its source calls and cache calls all
\* returning, it returns with a result.
C36_TerminatesWithinNSourceCalls ==
    /\ [](\A t \in 1..CallTasks : SourceCallsBounded(t))
    /\ \A t \in 1..CallTasks :
          (calls[t].pc # "idle") ~> (calls[t].pc = "done")

\* C36's case: on a resolver with two sources or more and a disk cache, a
\* fetch_file has returned after missing the cache, calling every source
\* once, the last of which had the file, and writing the cache.
C36_Witness ==
    /\ sources >= 2
    /\ cacheKind = "disk"
    /\ \E t \in DOMAIN calls :
          /\ calls[t].pc = "done"
          /\ calls[t].op = "fetch_file"
          /\ calls[t].res.ok /\ calls[t].wrote
          /\ calls[t].consulted = [k \in 1..sources |-> k]

\* What holds besides: a call taken turn by turn returns what the call
\* taken as one step returns on the same sources, having called the same
\* sources (fetch_file compared where no cache is attached).
TurnsAgreeWithCalls ==
    \A t \in DOMAIN calls :
        LET c == calls[t]
        IN  c.pc = "done" =>
              /\ c.op = "list_directory" =>
                    /\ c.res = list_directory(c.path, world).res
                    /\ c.consulted = list_directory(c.path, world).consulted
              /\ c.op = "list_directory_merged" =>
                    /\ c.res = list_directory_merged(c.path, world).res
                    /\ c.consulted =
                           list_directory_merged(c.path, world).consulted
              /\ c.op = "file_exists" =>
                    /\ c.res = Ok(file_exists(c.path, world).exists)
                    /\ c.consulted = file_exists(c.path, world).consulted
              /\ (c.op = "fetch_file" /\ cacheKind = "none") =>
                    LET f == fetch_file(cacheKind, store, c.path, world, fsys)
                    IN  c.res = f.res /\ c.consulted = f.consulted

\* The GitHubSource's base_path.
BasePath == world[1].base_path
StartsWithSlash(s) == Len(s) > 0 /\ SubSeq(s, 1, 1) = "/"

\* C37 as stated: for every base_path and every path p without a leading
\* '/', strip_base_path(join_path(p)) = p.
C37_Original ==
    (last.op = "join_path" /\ ~StartsWithSlash(last.path)) =>
        strip_base_path(BasePath, last.res) = last.path

\* What holds of the round trip: it gives p back for every base_path that
\* has no leading '/' itself (a trailing '/', or several, does no harm).
RoundTripUnlessBaseStartsWithSlash ==
    ( /\ last.op = "join_path"
      /\ ~StartsWithSlash(last.path)
      /\ ~StartsWithSlash(trim_end_matches(BasePath)) ) =>
        strip_base_path(BasePath, last.res) = last.path

\* The path is base_path itself or lies under it: after base_path, its
\* trailing '/' apart, the path ends or goes on with '/'; every path lies
\* under the repository's root.
LiesUnder(base_path, path) ==
    LET base == trim_end_matches(base_path)
        path_trimmed == trim_start_matches(path)
    IN  \/ base = ""
        \/ path_trimmed = base
        \/ strip_prefix(path_trimmed, base \o "/") # None

\* C38 as stated: strip_base_path returns unchanged every path that is not
\* base_path itself and does not lie under it at a '/' boundary, a path
\* that only begins with base_path's characters included.
C38_Original ==
    (last.op = "strip_base_path" /\ ~LiesUnder(BasePath, last.path)) =>
        last.res = last.path

\* What holds of strip_base_path: a path that does not begin with
\* base_path's characters is returned unchanged, and a path under base_path
\* is returned without base_path and without the '/' that follows it.
StripsByCharacters ==
    last.op = "strip_base_path" =>
        LET base == trim_end_matches(BasePath)
            path_trimmed == trim_start_matches(last.path)
        IN  /\ (BasePath = "" \/ strip_prefix(path_trimmed, base) = None)
                  => last.res = last.path
            /\ (BasePath # "" /\ base # ""
                  /\ strip_prefix(path_trimmed, base \o "/") # None)
                  => last.res = trim_start_matches(
                                    strip_prefix(path_trimmed, base \o "/"))

====
